---- MODULE Spec2Model ----
(***************************************************************************)
(* A model of the tree-walking interpreter: the scanner (scanner.rs), the  *)
(* parser (parser.rs), the environment chain (environment.rs) and the      *)
(* evaluator (interpreter.rs).                                             *)
(*                                                                         *)
(* Numbers are f64 in the source; the model uses small integers and leaves *)
(* out '/', whose result is not an integer in general.  Strings are TLA+   *)
(* strings, source text is a sequence of one-character strings.            *)
(***************************************************************************)
EXTENDS Integers, Sequences, FiniteSets, TLC

VARIABLES
    \* ---- evaluator (interpreter.rs, environment.rs) ----
    is_repl,        \* Interpreter.is_repl
    heap,           \* the Rc<Environment> nodes alive; heap[1] is the global one
    environment,    \* Interpreter.environment: index of the current node
    stack,          \* the call stack of interpret / execute activations
    ret,            \* the Result being returned to the activation on top
    out,            \* lines written to stdout by the current interpret call
    result,         \* what the last interpret call returned
    calls,          \* number of interpret calls made so far
    program,        \* index of the statement list of the current interpret call
    lastEval,       \* history: the last expression evaluated by a step
    \* ---- scanner (scanner.rs) ----
    source,         \* Scanner.source, a sequence of characters
    tokens,         \* Scanner.tokens
    start,          \* Scanner.start (0-based, as in the source)
    current,        \* Scanner.current (0-based)
    line,           \* Scanner.line
    is_error,       \* Scanner.is_error
    reported,       \* the lines report_error has printed
    scanned,        \* "no" while scan_tokens runs, then what it returned
    \* ---- parser (parser.rs) ----
    p_tokens,       \* Parser.tokens
    p_current,      \* Parser.current (0-based, as in the source)
    loop_count,     \* Parser.loop_count
    statements,     \* parse: the local statements
    p_is_error,     \* parse: the local is_error
    diagnostics,    \* parse: the messages printed
    parsed          \* "no" while parse runs, then "Ok", "Err" or "panic"

evalVars == <<is_repl, heap, environment, stack, ret, out, result, calls,
              program, lastEval>>

scanVars == <<source, tokens, start, current, line, is_error, reported,
              scanned>>

parseVars == <<p_tokens, p_current, loop_count, statements, p_is_error,
               diagnostics, parsed>>

vars == <<evalVars, scanVars, parseVars>>

-----------------------------------------------------------------------------
(* Bounds *)

MaxCalls == 2      \* interpret calls per interpreter instance
MaxOut == 4        \* lines printed per interpret call
MaxSrcLen == 4     \* characters of a source text drawn from Alphabet
MaxTokens == 4     \* tokens before EOF of a token sequence drawn from TokenAlphabet
MaxSteps == 4096   \* calls and returns of parsing methods in one declaration
MaxChain == 3      \* operands of a chain of `and`

-----------------------------------------------------------------------------
(* Option and Result *)

None == [some |-> FALSE]
Some(x) == [some |-> TRUE, val |-> x]

Ok(v) == [ok |-> TRUE, value |-> v]
Err(e) == [ok |-> FALSE, err |-> e]

-----------------------------------------------------------------------------
(* interpreter.rs: Value, and scanner.rs: Literal *)

Identifier(s) == [tag |-> "Identifier", num |-> 0, str |-> s, bool |-> FALSE]
Str(s) == [tag |-> "Str", num |-> 0, str |-> s, bool |-> FALSE]
Number(n) == [tag |-> "Number", num |-> n, str |-> "", bool |-> FALSE]
Bool(b) == [tag |-> "Bool", num |-> 0, str |-> "", bool |-> b]
Nil == [tag |-> "Nil", num |-> 0, str |-> "", bool |-> FALSE]

\* a token as the evaluator reads it: kind, lexeme and line
Tok(tt, lexeme) == [token_type |-> tt, lexeme |-> lexeme, line |-> 1]

is_truthy(value) ==
    CASE value.tag = "Bool" -> value.bool
      [] value.tag = "Nil" -> FALSE
      [] OTHER -> TRUE

literal_to_value(literal) ==
    CASE literal.tag = "Identifier" -> Ok(Identifier(literal.str))
      [] literal.tag = "Str" -> Ok(Str(literal.str))
      [] literal.tag = "Number" -> Ok(Number(literal.num))
      [] literal.tag = "Bool" -> Ok(Bool(literal.bool))
      [] literal.tag = "Nil" -> Ok(Nil)

is_equal(left, right) ==
    CASE left.tag = "Identifier" /\ right.tag = "Identifier" -> Some(left.str = right.str)
      [] left.tag = "Str" /\ right.tag = "Str" -> Some(left.str = right.str)
      [] left.tag = "Number" /\ right.tag = "Number" -> Some(left.num = right.num)
      [] left.tag = "Bool" /\ right.tag = "Bool" -> Some(left.bool = right.bool)
      [] left.tag = "Nil" /\ right.tag = "Nil" -> Some(TRUE)
      [] OTHER -> None

BoolToString(b) == IF b THEN "true" ELSE "false"

stringify(value) ==
    CASE value.tag = "Identifier" -> value.str
      [] value.tag = "Str" -> value.str
      [] value.tag = "Number" -> ToString(value.num)
      [] value.tag = "Bool" -> BoolToString(value.bool)
      [] value.tag = "Nil" -> "nil"

generate_error(ln, message) ==
    "[line " \o ToString(ln) \o "] Error: " \o message

-----------------------------------------------------------------------------
(* environment.rs.  A node is [enclosing, values]; enclosing = 0 is None.  *)
(* Nodes are shared through Rc, so the chain is a set of indices into heap *)
(* and a write through one reference is seen through every other.          *)

Environment_new == [enclosing |-> 0, values |-> <<>>]
Environment_from(enclosing) == [enclosing |-> enclosing, values |-> <<>>]

\* HashMap::insert
Insert(values, key, value) ==
    [k \in (DOMAIN values) \cup {key} |-> IF k = key THEN value ELSE values[k]]

\* HashMap::entry(key).or_insert(value): inserts only when the key is vacant
EntryOrInsert(values, key, value) ==
    IF key \in DOMAIN values THEN values ELSE Insert(values, key, value)

RECURSIVE get(_, _, _)
get(h, e, name) ==
    IF name.lexeme \in DOMAIN h[e].values
    THEN Some(h[e].values[name.lexeme])
    ELSE IF h[e].enclosing /= 0
         THEN get(h, h[e].enclosing, name)
         ELSE None

\* the binding is made in the global scope
define_mut(h, e, name, value) ==
    [h EXCEPT ![1].values = Insert(@, name.lexeme, value)]

define(h, e, name, value) ==
    [h EXCEPT ![e].values = Insert(@, name.lexeme, value)]

\* a name that is not bound is bound in the current scope
assign_mut(h, e, name, value) ==
    [res |-> Ok(value),
     heap |-> [h EXCEPT ![e].values = Insert(@, name.lexeme, value)]]

\* returns the Result and the heap after the call
RECURSIVE assign(_, _, _, _)
assign(h, e, name, value) ==
    IF name.lexeme \in DOMAIN h[e].values
    THEN [res |-> Ok(value),
          heap |-> [h EXCEPT ![e].values = EntryOrInsert(@, name.lexeme, value)]]
    ELSE IF h[e].enclosing /= 0
         THEN assign(h, h[e].enclosing, name, value)
         ELSE [res |-> Err("Variable '" \o name.lexeme \o "' does not exist."),
               heap |-> h]

-----------------------------------------------------------------------------
(* syntax.rs: Expr and Stmt.  The field `expr` / `stmt` is the variant.    *)

Literal(value) == [expr |-> "Literal", value |-> value]
Grouping(e) == [expr |-> "Grouping", expression |-> e]
Variable(n) == [expr |-> "Variable", name |-> Tok("Identifier", n)]
Assign(n, v) == [expr |-> "Assign", name |-> Tok("Identifier", n), value |-> v]
Logical(l, tt, r) == [expr |-> "Logical", left |-> l, operator |-> Tok(tt, tt), right |-> r]
Unary(tt, r) == [expr |-> "Unary", operator |-> Tok(tt, tt), right |-> r]
Binary(l, tt, r) == [expr |-> "Binary", left |-> l, operator |-> Tok(tt, tt), right |-> r]

ExpressionStmt(e) == [stmt |-> "Expression", expression |-> e]
PrintStmt(e) == [stmt |-> "Print", expression |-> e]
VariableStmt(n, init) == [stmt |-> "Variable", name |-> Tok("Identifier", n), initializer |-> init]
Block(stmts) == [stmt |-> "Block", statements |-> stmts]
If(c, t, e) == [stmt |-> "If", condition |-> c, then_branch |-> t, else_branch |-> e]
While(c, b) == [stmt |-> "While", condition |-> c, body |-> b]
Break == [stmt |-> "Break"]

-----------------------------------------------------------------------------
(* interpreter.rs: Interpreter::evaluate.  The result is the Result, the   *)
(* heap after the call, and log: the literals and variables read and the   *)
(* assignments made, in evaluation order.                                  *)

EvalRes(res, h, log) == [res |-> res, heap |-> h, log |-> log]

\* `and` tests the left operand the way `or` does
ShortCircuits_mut(operator, left_object) == is_truthy(left_object)

\* Expr::Logical, lines 158-166: does the left operand decide the result?
ShortCircuits(operator, left_object) ==
    IF operator.token_type = "Or"
    THEN is_truthy(left_object)
    ELSE ~is_truthy(left_object)

\* Expr::Unary, lines 176-194
EvalUnary(operator, right_object) ==
    CASE operator.token_type = "Minus" ->
            IF right_object.tag = "Number"
            THEN Ok(Number(0 - right_object.num))
            ELSE Err(generate_error(operator.line, "cannot apply '-' operator on a non-number."))
      [] operator.token_type = "Bang" ->
            IF right_object.tag = "Bool"
            THEN Ok(Bool(~right_object.bool))
            ELSE Err(generate_error(operator.line, "cannot apply '!' operator on a non-number."))
      [] OTHER -> Err(generate_error(operator.line, "unary operator must be '-' or '!'."))

BothNumbers(l, r) == l.tag = "Number" /\ r.tag = "Number"

\* Expr::Binary, lines 204-299 ('/' is left out: see the module comment)
EvalBinary(l, operator, r) ==
    CASE operator.token_type = "Minus" ->
            IF BothNumbers(l, r) THEN Ok(Number(l.num - r.num))
            ELSE Err(generate_error(operator.line, "cannot apply '-' on non-numbers."))
      [] operator.token_type = "Plus" ->
            IF BothNumbers(l, r) THEN Ok(Number(l.num + r.num))
            ELSE IF l.tag = "Str" /\ r.tag = "Str" THEN Ok(Str(l.str \o r.str))
            ELSE Err(generate_error(operator.line, "'+' operator must be applied on numbers or strings."))
      [] operator.token_type = "Star" ->
            IF BothNumbers(l, r) THEN Ok(Number(l.num * r.num))
            ELSE Err(generate_error(operator.line, "'*' operator must be applied on numbers."))
      [] operator.token_type = "Greater" ->
            IF BothNumbers(l, r) THEN Ok(Bool(l.num > r.num))
            ELSE Err(generate_error(operator.line, "'>' operator must be applied on numbers."))
      [] operator.token_type = "GreaterEqual" ->
            IF BothNumbers(l, r) THEN Ok(Bool(l.num >= r.num))
            ELSE Err(generate_error(operator.line, "'>=' operator must be applied on numbers."))
      [] operator.token_type = "Less" ->
            IF BothNumbers(l, r) THEN Ok(Bool(l.num < r.num))
            ELSE Err(generate_error(operator.line, "'<' operator must be applied on numbers."))
      [] operator.token_type = "LessEqual" ->
            IF BothNumbers(l, r) THEN Ok(Bool(l.num <= r.num))
            ELSE Err(generate_error(operator.line, "'<=' operator must be applied on numbers."))
      [] operator.token_type = "BangEqual" ->
            IF is_equal(l, r).some THEN Ok(Bool(~is_equal(l, r).val))
            ELSE Err(generate_error(operator.line, "'!=' operator must be applied on the same types."))
      [] operator.token_type = "EqualEqual" ->
            IF is_equal(l, r).some THEN Ok(Bool(is_equal(l, r).val))
            ELSE Err(generate_error(operator.line, "'==' operator must be applied on the same types."))
      [] OTHER -> Err(generate_error(operator.line, "unknown token found while parsing binary expression."))

RECURSIVE evaluate(_, _, _)
evaluate(expr, h, e) ==
    CASE expr.expr = "Literal" ->
            EvalRes(literal_to_value(expr.value), h, <<expr>>)
      [] expr.expr = "Grouping" ->
            evaluate(expr.expression, h, e)
      [] expr.expr = "Variable" ->
            LET found == get(h, e, expr.name) IN
            EvalRes(IF found.some THEN Ok(found.val)
                    ELSE Err("Variable '" \o expr.name.lexeme \o "' is undefined."),
                    h, <<expr>>)
      [] expr.expr = "Assign" ->
            LET v == evaluate(expr.value, h, e) IN
            IF ~v.res.ok THEN v
            ELSE LET a == assign(v.heap, e, expr.name, v.res.value) IN
                 EvalRes(a.res, a.heap,
                         Append(v.log, [expr |-> "Assign", name |-> expr.name,
                                        value |-> v.res.value]))
      [] expr.expr = "Logical" ->
            LET l == evaluate(expr.left, h, e) IN
            IF ~l.res.ok THEN l
            ELSE IF ShortCircuits(expr.operator, l.res.value) THEN l
            ELSE LET r == evaluate(expr.right, l.heap, e) IN
                 EvalRes(r.res, r.heap, l.log \o r.log)
      [] expr.expr = "Unary" ->
            LET r == evaluate(expr.right, h, e) IN
            IF ~r.res.ok THEN r
            ELSE EvalRes(EvalUnary(expr.operator, r.res.value), r.heap, r.log)
      [] expr.expr = "Binary" ->
            LET l == evaluate(expr.left, h, e) IN
            IF ~l.res.ok THEN l
            ELSE LET r == evaluate(expr.right, l.heap, e) IN
                 IF ~r.res.ok THEN EvalRes(r.res, r.heap, l.log \o r.log)
                 ELSE EvalRes(EvalBinary(l.res.value, expr.operator, r.res.value),
                              r.heap, l.log \o r.log)

-----------------------------------------------------------------------------
(* Statement lists handed to Interpreter::interpret.  Literal values have  *)
(* the shape of Value (Literal and Value have the same variants).          *)

Num(n) == Literal(Number(n))
Text(s) == Literal(Str(s))
True == Literal(Bool(TRUE))
False == Literal(Bool(FALSE))
NilLit == Literal(Nil)

\* var x = 0; x = 1; print x;
ProgAssign ==
    << VariableStmt("x", Some(Num(0))),
       ExpressionStmt(Assign("x", Num(1))),
       PrintStmt(Variable("x")) >>

\* var i = 0; while (i < 3) { print i; i = i + 1; }
ProgWhile ==
    << VariableStmt("i", Some(Num(0))),
       While(Binary(Variable("i"), "Less", Num(3)),
             Block(<< PrintStmt(Variable("i")),
                      ExpressionStmt(Assign("i", Binary(Variable("i"), "Plus", Num(1)))) >>)) >>

\* var a = 1; { var b = 2; { print c; } print b; } print a;
ProgBlockErr ==
    << VariableStmt("a", Some(Num(1))),
       Block(<< VariableStmt("b", Some(Num(2))),
                Block(<< PrintStmt(Variable("c")) >>),
                PrintStmt(Variable("b")) >>),
       PrintStmt(Variable("a")) >>

\* while (true) { { var t = 1; break; } print "no"; } print "after";
ProgBlockBreak ==
    << While(True,
             Block(<< Block(<< VariableStmt("t", Some(Num(1))), Break >>),
                      PrintStmt(Text("no")) >>)),
       PrintStmt(Text("after")) >>

\* var a = 1; { var a = 2; print a; } print a;
ProgShadow ==
    << VariableStmt("a", Some(Num(1))),
       Block(<< VariableStmt("a", Some(Num(2))), PrintStmt(Variable("a")) >>),
       PrintStmt(Variable("a")) >>

\* print 1 == "1";
ProgEqNumStr == << PrintStmt(Binary(Num(1), "EqualEqual", Text("1"))) >>

\* print nil != true;
ProgNeNilBool == << PrintStmt(Binary(NilLit, "BangEqual", True)) >>

\* print nil == nil; print 1 == 1; print "a" != "b"; print true == false;
ProgEqSame ==
    << PrintStmt(Binary(NilLit, "EqualEqual", NilLit)),
       PrintStmt(Binary(Num(1), "EqualEqual", Num(1))),
       PrintStmt(Binary(Text("a"), "BangEqual", Text("b"))),
       PrintStmt(Binary(True, "EqualEqual", False)) >>

\* var x = 0; false and (x = 1); print x;
ProgAnd ==
    << VariableStmt("x", Some(Num(0))),
       ExpressionStmt(Logical(False, "And", Grouping(Assign("x", Num(1))))),
       PrintStmt(Variable("x")) >>

\* var x = 0; true or (x = 1); print x;
ProgOr ==
    << VariableStmt("x", Some(Num(0))),
       ExpressionStmt(Logical(True, "Or", Grouping(Assign("x", Num(1))))),
       PrintStmt(Variable("x")) >>

\* 0 or (y = 1); nil and (y = 1); print "s" and 7; print nil or (y = 2);
ProgLogical ==
    << ExpressionStmt(Logical(Num(0), "Or", Grouping(Assign("y", Num(1))))),
       ExpressionStmt(Logical(NilLit, "And", Grouping(Assign("y", Num(1))))),
       PrintStmt(Logical(Text("s"), "And", Num(7))),
       PrintStmt(Logical(NilLit, "Or", Grouping(Assign("y", Num(2))))) >>

\* var i = 0; while (true) { if (i == 2) break; i = i + 1; } print i;
ProgBreak ==
    << VariableStmt("i", Some(Num(0))),
       While(True,
             Block(<< If(Binary(Variable("i"), "EqualEqual", Num(2)), Break, None),
                      ExpressionStmt(Assign("i", Binary(Variable("i"), "Plus", Num(1)))) >>)),
       PrintStmt(Variable("i")) >>

\* var n = 0; while (n < 1) { while (true) { break; } print "in"; var n = n + 1; }
\* print "done";
ProgNested ==
    << VariableStmt("n", Some(Num(0))),
       While(Binary(Variable("n"), "Less", Num(1)),
             Block(<< While(True, Block(<< Break >>)),
                      PrintStmt(Text("in")),
                      VariableStmt("n", Some(Binary(Variable("n"), "Plus", Num(1)))) >>)),
       PrintStmt(Text("done")) >>

\* var k = true; while (k) { while (true) break; var j = 1; if (j == 1) break; }
\* print "out";
ProgBreakOuter ==
    << VariableStmt("k", Some(True)),
       While(Variable("k"),
             Block(<< While(True, Break),
                      VariableStmt("j", Some(Num(1))),
                      If(Binary(Variable("j"), "EqualEqual", Num(1)), Break, None) >>)),
       PrintStmt(Text("out")) >>

\* if (nil) print "t"; else print "f"; if (0) print "t"; if (false) print "no";
ProgIf ==
    << If(NilLit, PrintStmt(Text("t")), Some(PrintStmt(Text("f")))),
       If(Num(0), PrintStmt(Text("t")), None),
       If(False, PrintStmt(Text("no")), None),
       If(Unary("Minus", True), PrintStmt(Text("no")), None) >>

\* while (false) print "no"; while (1 < "a") print "no";
ProgWhileErr ==
    << While(False, PrintStmt(Text("no"))),
       While(Binary(Num(1), "Less", Text("a")), PrintStmt(Text("no"))) >>

\* while (true) { print u; }
ProgWhileBodyErr ==
    << While(True, Block(<< PrintStmt(Variable("u")) >>)) >>

\* var v; print -1 - 2 * 3; print !true; var w = -"a"; print v;
ProgMisc ==
    << VariableStmt("v", None),
       PrintStmt(Binary(Unary("Minus", Num(1)), "Minus", Binary(Num(2), "Star", Num(3)))),
       PrintStmt(Unary("Bang", True)),
       VariableStmt("w", Some(Unary("Minus", Text("a")))),
       PrintStmt(Variable("v")) >>

\* print a; a = a + 1; "x" + "y";
ProgUseGlobal ==
    << PrintStmt(Variable("a")),
       ExpressionStmt(Assign("a", Binary(Variable("a"), "Plus", Num(1)))),
       ExpressionStmt(Binary(Text("x"), "Plus", Text("y"))) >>

Programs ==
    << ProgAssign, ProgWhile, ProgBlockErr, ProgBlockBreak, ProgShadow,
       ProgEqNumStr, ProgNeNilBool, ProgEqSame, ProgAnd, ProgOr, ProgLogical,
       ProgBreak, ProgNested, ProgBreakOuter, ProgIf, ProgWhileErr,
       ProgWhileBodyErr, ProgMisc, ProgUseGlobal >>

\* the position of a statement list in Programs
RECURSIVE IndexFrom(_, _)
IndexFrom(p, k) == IF Programs[k] = p THEN k ELSE IndexFrom(p, k + 1)
ProgramIndex(p) == IndexFrom(p, 1)

-----------------------------------------------------------------------------
(* interpreter.rs: Interpreter::interpret and Interpreter::execute, one    *)
(* action per step of the recursion.  The Rust call stack is `stack`:      *)
(*   [kind "interpret", statements, pc]    the for loop of interpret       *)
(*   [kind "execute", stmt]                a call of execute not yet begun *)
(*   [kind "block", statements, pc, entry] the for loop of Stmt::Block     *)
(*   [kind "while", condition, body]       the while loop of Stmt::While   *)
(* pc is the index of the next statement; entry (history) is the           *)
(* environment that was current when the block was entered.                *)

NoRet == [pending |-> FALSE, ok |-> TRUE, err |-> ""]
RetOk == [pending |-> TRUE, ok |-> TRUE, err |-> ""]
RetErr(e) == [pending |-> TRUE, ok |-> FALSE, err |-> e]

NoEval == [some |-> FALSE]
\* stmt evaluated expr in environment e of heap h, with outcome r
Evaluated(stmt, expr, h, e, r) ==
    [some |-> TRUE, stmt |-> stmt, expr |-> expr, heap |-> h, env |-> e, r |-> r]

Top == stack[Len(stack)]
Pop == SubSeq(stack, 1, Len(stack) - 1)
ReplaceTop(f) == [stack EXCEPT ![Len(stack)] = f]
Running(kind) == stack /= <<>> /\ Top.kind = kind
Executing(s) == Running("execute") /\ Top.stmt.stmt = s
\* the loop goes on whatever the callee returned
Continues_mut == TRUE

\* the callee returned Ok, or the loop has not called anything yet
Continues == ~ret.pending \/ ret.ok
Failed == ret.pending /\ ~ret.ok

ExecuteFrame(stmt) == [kind |-> "execute", stmt |-> stmt]

\* dropping the last Rc to a node frees it: nodes above the current one
\* are referenced by nothing
Release(h, e) == SubSeq(h, 1, e)

\* no scan is going on
ScannerIdle ==
    /\ source = <<>>
    /\ tokens = <<>>
    /\ start = 0
    /\ current = 0
    /\ line = 0
    /\ is_error = FALSE
    /\ reported = <<>>
    /\ scanned = "idle"

\* no parse is going on
ParserIdle ==
    /\ p_tokens = <<>>
    /\ p_current = 0
    /\ loop_count = 0
    /\ statements = <<>>
    /\ p_is_error = FALSE
    /\ diagnostics = <<>>
    /\ parsed = "idle"

\* Interpreter::new
Init ==
    /\ is_repl \in BOOLEAN
    /\ heap = <<Environment_new>>
    /\ environment = 1
    /\ stack = <<>>
    /\ ret = NoRet
    /\ out = <<>>
    /\ result = "none"
    /\ calls = 0
    /\ program = 0
    /\ lastEval = NoEval
    /\ ScannerIdle
    /\ ParserIdle

\* a call of interpret(statements)
Interpret(k) ==
    /\ stack = <<>>
    /\ calls < MaxCalls
    /\ stack' = <<[kind |-> "interpret", statements |-> Programs[k], pc |-> 1]>>
    /\ calls' = calls + 1
    /\ program' = k
    /\ out' = <<>>
    /\ result' = "running"
    /\ ret' = NoRet
    /\ lastEval' = NoEval
    /\ UNCHANGED <<is_repl, heap, environment, scanVars, parseVars>>

\* interpret, lines 21-22: the next statement
InterpretLoop ==
    /\ Running("interpret")
    /\ Continues
    /\ Top.pc <= Len(Top.statements)
    /\ stack' = Append(ReplaceTop([Top EXCEPT !.pc = @ + 1]),
                       ExecuteFrame(Top.statements[Top.pc]))
    /\ ret' = NoRet
    /\ lastEval' = NoEval
    /\ UNCHANGED <<is_repl, heap, environment, out, result, calls, program, scanVars, parseVars>>

\* interpret, line 32
InterpretOk ==
    /\ Running("interpret")
    /\ Continues
    /\ Top.pc > Len(Top.statements)
    /\ stack' = Pop
    /\ result' = "Ok"
    /\ ret' = NoRet
    /\ lastEval' = NoEval
    /\ UNCHANGED <<is_repl, heap, environment, out, calls, program, scanVars, parseVars>>

\* interpret, lines 24-28
InterpretErr ==
    /\ Running("interpret")
    /\ Failed
    /\ stack' = Pop
    /\ out' = out \o <<"Failed to interpret statement.", ret.err>>
    /\ result' = "Err"
    /\ ret' = NoRet
    /\ lastEval' = NoEval
    /\ UNCHANGED <<is_repl, heap, environment, calls, program, scanVars, parseVars>>

\* execute, Stmt::Expression
ExecExpression ==
    /\ Executing("Expression")
    /\ Len(out) < MaxOut
    /\ LET r == evaluate(Top.stmt.expression, heap, environment) IN
       /\ heap' = r.heap
       /\ lastEval' = Evaluated(Top.stmt, Top.stmt.expression, heap, environment, r)
       /\ IF r.res.ok
          THEN /\ out' = IF is_repl THEN Append(out, stringify(r.res.value)) ELSE out
               /\ ret' = RetOk
          ELSE /\ out' = out
               /\ ret' = RetErr(r.res.err)
    /\ stack' = Pop
    /\ UNCHANGED <<is_repl, environment, result, calls, program, scanVars, parseVars>>

\* execute, Stmt::Print
ExecPrintStmt ==
    /\ Executing("Print")
    /\ Len(out) < MaxOut
    /\ LET r == evaluate(Top.stmt.expression, heap, environment) IN
       /\ heap' = r.heap
       /\ lastEval' = Evaluated(Top.stmt, Top.stmt.expression, heap, environment, r)
       /\ IF r.res.ok
          THEN /\ out' = Append(out, stringify(r.res.value))
               /\ ret' = RetOk
          ELSE /\ out' = out
               /\ ret' = RetErr(r.res.err)
    /\ stack' = Pop
    /\ UNCHANGED <<is_repl, environment, result, calls, program, scanVars, parseVars>>

\* execute, Stmt::Variable
ExecVariable ==
    /\ Executing("Variable")
    /\ IF Top.stmt.initializer.some
       THEN LET r == evaluate(Top.stmt.initializer.val, heap, environment) IN
            /\ lastEval' = Evaluated(Top.stmt, Top.stmt.initializer.val, heap, environment, r)
            /\ IF r.res.ok
               THEN /\ heap' = define(r.heap, environment, Top.stmt.name, r.res.value)
                    /\ ret' = RetOk
               ELSE /\ heap' = r.heap
                    /\ ret' = RetErr(r.res.err)
       ELSE /\ lastEval' = NoEval
            /\ heap' = heap
            /\ ret' = RetOk
    /\ stack' = Pop
    /\ UNCHANGED <<is_repl, environment, out, result, calls, program, scanVars, parseVars>>

\* execute, Stmt::Block, line 75: enter a new scope
ExecBlock ==
    /\ Executing("Block")
    /\ heap' = Append(heap, Environment_from(environment))
    /\ environment' = Len(heap) + 1
    /\ stack' = ReplaceTop([kind |-> "block", statements |-> Top.stmt.statements,
                            pc |-> 1, entry |-> environment])
    /\ ret' = NoRet
    /\ lastEval' = NoEval
    /\ UNCHANGED <<is_repl, out, result, calls, program, scanVars, parseVars>>

\* Stmt::Block, lines 76-77: the next statement of the block
BlockLoop ==
    /\ Running("block")
    /\ Continues
    /\ Top.pc <= Len(Top.statements)
    /\ stack' = Append(ReplaceTop([Top EXCEPT !.pc = @ + 1]),
                       ExecuteFrame(Top.statements[Top.pc]))
    /\ ret' = NoRet
    /\ lastEval' = NoEval
    /\ UNCHANGED <<is_repl, heap, environment, out, result, calls, program, scanVars, parseVars>>

\* the scope is not left when a statement fails
UnwindOnError_mut(h, e) == e

\* lines 80-83: the environment after a statement of the block failed
UnwindOnError(h, e) == IF h[e].enclosing /= 0 THEN h[e].enclosing ELSE e

\* the scope is not left at the end of the block
UnwindOnExit_mut(h, e) == e

\* lines 90-93: the environment after the last statement of the block
UnwindOnExit(h, e) == IF h[e].enclosing /= 0 THEN h[e].enclosing ELSE e

\* Stmt::Block, lines 79-86: a statement returned Err (an error or "break")
BlockErr ==
    /\ Running("block")
    /\ Failed
    /\ environment' = UnwindOnError(heap, environment)
    /\ heap' = Release(heap, environment')
    /\ ret' = IF heap[environment].enclosing /= 0
              THEN RetErr(ret.err)
              ELSE RetErr("Enclosing environment not found.\n" \o ret.err)
    /\ stack' = Pop
    /\ lastEval' = NoEval
    /\ UNCHANGED <<is_repl, out, result, calls, program, scanVars, parseVars>>

\* Stmt::Block, lines 90-95: all statements returned Ok
BlockExit ==
    /\ Running("block")
    /\ Continues
    /\ Top.pc > Len(Top.statements)
    /\ environment' = UnwindOnExit(heap, environment)
    /\ heap' = Release(heap, environment')
    /\ ret' = IF heap[environment].enclosing /= 0
              THEN RetOk
              ELSE RetErr("Enclosing environment not found.")
    /\ stack' = Pop
    /\ lastEval' = NoEval
    /\ UNCHANGED <<is_repl, out, result, calls, program, scanVars, parseVars>>

\* execute, Stmt::If
ExecIf ==
    /\ Executing("If")
    /\ LET r == evaluate(Top.stmt.condition, heap, environment) IN
       /\ heap' = r.heap
       /\ lastEval' = Evaluated(Top.stmt, Top.stmt.condition, heap, environment, r)
       /\ IF ~r.res.ok
          THEN /\ stack' = Pop
               /\ ret' = RetErr(r.res.err)
          ELSE IF is_truthy(r.res.value)
          THEN /\ stack' = ReplaceTop(ExecuteFrame(Top.stmt.then_branch))
               /\ ret' = NoRet
          ELSE IF Top.stmt.else_branch.some
          THEN /\ stack' = ReplaceTop(ExecuteFrame(Top.stmt.else_branch.val))
               /\ ret' = NoRet
          ELSE /\ stack' = Pop
               /\ ret' = RetOk
    /\ UNCHANGED <<is_repl, environment, out, result, calls, program, scanVars, parseVars>>

\* execute, Stmt::While: the loop begins
ExecWhile ==
    /\ Executing("While")
    /\ stack' = ReplaceTop([kind |-> "while", condition |-> Top.stmt.condition,
                            body |-> Top.stmt.body])
    /\ ret' = NoRet
    /\ lastEval' = NoEval
    /\ UNCHANGED <<is_repl, heap, environment, out, result, calls, program, scanVars, parseVars>>

\* Stmt::While, lines 111-112 and 124: evaluate the condition, then run the
\* body or leave the loop
WhileCondition ==
    /\ Running("while")
    /\ Continues
    /\ LET r == evaluate(Top.condition, heap, environment) IN
       /\ heap' = r.heap
       /\ lastEval' = Evaluated(While(Top.condition, Top.body), Top.condition, heap, environment, r)
       /\ IF ~r.res.ok
          THEN /\ stack' = Pop
               /\ ret' = RetErr(r.res.err)
          ELSE IF is_truthy(r.res.value)
          THEN /\ stack' = Append(stack, ExecuteFrame(Top.body))
               /\ ret' = NoRet
          ELSE /\ stack' = Pop
               /\ ret' = RetOk
    /\ UNCHANGED <<is_repl, environment, out, result, calls, program, scanVars, parseVars>>

\* Stmt::While, line 115: is the Err of the body the break signal?
IsBreakSignal(e) == e = "break"

\* Stmt::While, lines 114-120: the body returned Err
WhileBodyErr ==
    /\ Running("while")
    /\ Failed
    /\ stack' = Pop
    /\ ret' = IF IsBreakSignal(ret.err) THEN RetOk ELSE RetErr(ret.err)
    /\ lastEval' = NoEval
    /\ UNCHANGED <<is_repl, heap, environment, out, result, calls, program, scanVars, parseVars>>

\* execute, Stmt::Break
ExecBreak ==
    /\ Executing("Break")
    /\ stack' = Pop
    /\ ret' = RetErr("break")
    /\ lastEval' = NoEval
    /\ UNCHANGED <<is_repl, heap, environment, out, result, calls, program, scanVars, parseVars>>

Next ==
    \/ \E k \in 1..Len(Programs) : Interpret(k)
    \/ InterpretLoop
    \/ InterpretOk
    \/ InterpretErr
    \/ ExecExpression
    \/ ExecPrintStmt
    \/ ExecVariable
    \/ ExecBlock
    \/ BlockLoop
    \/ BlockErr
    \/ BlockExit
    \/ ExecIf
    \/ ExecWhile
    \/ WhileCondition
    \/ WhileBodyErr
    \/ ExecBreak

Spec == Init /\ [][Next]_vars

\* every step but the caller's decision to call interpret
Execute ==
    \/ InterpretLoop \/ InterpretOk \/ InterpretErr
    \/ ExecExpression \/ ExecPrintStmt \/ ExecVariable
    \/ ExecBlock \/ BlockLoop \/ BlockErr \/ BlockExit
    \/ ExecIf \/ ExecWhile \/ WhileCondition \/ WhileBodyErr \/ ExecBreak

\* the evaluator is synchronous: a call of interpret that can take a step
\* takes it
FairSpec == Spec /\ WF_vars(Execute)

-----------------------------------------------------------------------------
(* Properties of the evaluator *)

Done(p) == program = ProgramIndex(p) /\ stack = <<>> /\ result /= "running"

IsPrefix(s, t) == Len(s) <= Len(t) /\ s = SubSeq(t, 1, Len(s))

\* C1: when an assignment expression succeeds, a get of the same name from
\* the same scope right after it returns the value that was assigned.
C1_AssignThenGet ==
    (lastEval.some /\ lastEval.expr.expr = "Assign" /\ lastEval.r.res.ok)
    => get(heap, lastEval.env, lastEval.expr.name) = Some(lastEval.r.res.value)

\* C2: `var i = 0; while (i < 3) { print i; i = i + 1; }` run as a script
\* prints 0, 1, 2 and nothing else, and interpret returns Ok.
C2_WhileCountsToThree ==
    (program = ProgramIndex(ProgWhile) /\ ~is_repl)
    => /\ IsPrefix(out, <<"0", "1", "2">>)
       /\ stack = <<>> => (result = "Ok" /\ out = <<"0", "1", "2">>)

\* C3: when a Block returns, on any path (Ok, a runtime error, the break
\* signal), the current environment is the one that was current when the
\* block was entered.
C3_BlockRestoresEnvironment ==
    [][(Running("block") /\ Len(stack') < Len(stack)) => environment' = Top.entry]_vars

\* the nested blocks of ProgBlockErr have both returned the runtime error
C3_Witness ==
    /\ program = ProgramIndex(ProgBlockErr)
    /\ Running("interpret")
    /\ ret = RetErr("Variable 'c' is undefined.")
    /\ environment = 1

RECURSIVE EndsAtGlobal(_, _)
EndsAtGlobal(h, e) ==
    /\ e \in 1..Len(h)
    /\ IF h[e].enclosing = 0 THEN e = 1 ELSE EndsAtGlobal(h, h[e].enclosing)

\* C4: the current environment is always a chain of scopes ending at the
\* interpreter's global environment, and between two interpret calls it is
\* the global environment itself.
C4_ChainEndsAtGlobal ==
    /\ EndsAtGlobal(heap, environment)
    /\ stack = <<>> => environment = 1

\* a second interpret call has failed inside a block, after a first call
\* that defined a global
C4_Witness ==
    /\ calls = 2
    /\ Done(ProgBlockErr)
    /\ result = "Err"
    /\ environment = 1
    /\ DOMAIN heap[1].values = {"a", "x"}

IsEquality(expr) ==
    expr.expr = "Binary" /\ expr.operator.token_type \in {"EqualEqual", "BangEqual"}

\* C5: `==` and `!=` never fail: on operands of different kinds `==` is false
\* and `!=` is true, on operands of the same kind they compare the values.
C5_EqualityIsTotal ==
    (lastEval.some /\ IsEquality(lastEval.expr))
    => LET l == evaluate(lastEval.expr.left, lastEval.heap, lastEval.env)
           r == evaluate(lastEval.expr.right, l.heap, lastEval.env)
           same == l.res.value = r.res.value
       IN (l.res.ok /\ r.res.ok)
          => lastEval.r.res =
                Ok(Bool(IF lastEval.expr.operator.token_type = "EqualEqual"
                        THEN same ELSE ~same))

\* the left operand of a Logical decides the result
Decides(expr, left) ==
    \/ expr.operator.token_type = "Or" /\ left.tag \notin {"Nil", "Bool"}
    \/ expr.operator.token_type = "Or" /\ left = Bool(TRUE)
    \/ expr.operator.token_type = "And" /\ left \in {Nil, Bool(FALSE)}

\* C6: `or` with a truthy left operand and `and` with a falsy left operand
\* return the left operand's value and do not evaluate the right operand:
\* value, environments and the reads and assignments made are those of the
\* left operand alone; the two programs of the spec leave x at 0.
C6_ShortCircuit ==
    /\ (lastEval.some /\ lastEval.expr.expr = "Logical")
       => LET l == evaluate(lastEval.expr.left, lastEval.heap, lastEval.env)
          IN (l.res.ok /\ Decides(lastEval.expr, l.res.value))
             => (lastEval.r = l /\ heap = l.heap)
    /\ (Done(ProgAnd) \/ Done(ProgOr))
       => (result = "Ok" /\ get(heap, 1, Tok("Identifier", "x")) = Some(Number(0)))

\* `false and (x = 1)` has just been evaluated with x = 0
C6_Witness ==
    /\ lastEval.some
    /\ lastEval.expr = Logical(False, "And", Grouping(Assign("x", Num(1))))
    /\ lastEval.r.res = Ok(Bool(FALSE))
    /\ get(heap, environment, Tok("Identifier", "x")) = Some(Number(0))

\* C7: a `var` statement writes the name in the current scope only: every
\* other scope and every other name is as the initializer left it, and
\* `var a = 1; { var a = 2; print a; } print a;` prints 2 then 1.
C7_ScopeIsolation ==
    /\ (lastEval.some /\ lastEval.stmt.stmt = "Variable" /\ lastEval.r.res.ok)
       => LET n == lastEval.stmt.name.lexeme
              before == lastEval.r.heap
          IN /\ n \in DOMAIN heap[environment].values
             /\ heap[environment].values[n] = lastEval.r.res.value
             /\ \A id \in 1..Len(heap) : id /= environment => heap[id] = before[id]
             /\ \A k \in DOMAIN before[environment].values :
                   k /= n => heap[environment].values[k] = before[environment].values[k]
    /\ (Done(ProgShadow) /\ ~is_repl) => out = <<"2", "1">>

\* the block of ProgShadow is running, `var a = 2` has just been executed in
\* it and the global a is still 1
C7_Witness ==
    /\ program = ProgramIndex(ProgShadow)
    /\ lastEval.some
    /\ lastEval.stmt = VariableStmt("a", Some(Num(2)))
    /\ environment = 2
    /\ heap[2].values["a"] = Number(2)
    /\ heap[1].values["a"] = Number(1)

\* C10: the break signal is consumed by the innermost While, which returns
\* Ok without evaluating its condition again and leaves the enclosing frames
\* as they are; interpret never reports the signal as an error; and the
\* script `var i=0; while (true) { if (i==2) break; i=i+1; } print i;`
\* ends having printed 2.
C10_BreakLeavesInnermostLoop ==
    /\ [][(Running("while") /\ ret = RetErr("break"))
          => /\ stack' = Pop
             /\ ret' = RetOk
             /\ lastEval' = NoEval
             /\ UNCHANGED <<heap, environment, out>>]_vars
    /\ [](~(Running("interpret") /\ ret = RetErr("break")))
    /\ ((program = ProgramIndex(ProgBreak) /\ ~is_repl /\ result = "running")
          ~> (Done(ProgBreak) /\ result = "Ok" /\ out = <<"2">>))

\* C12: when a statement of an interpret call fails, interpret returns
\* failure at once (it prints the two lines of the report and runs none of
\* the statements that follow), the environment is left as the failing
\* statement left it and stays so until the next call, so the globals defined
\* before the failure are visible later: `var a = 1; { var b = 2; { print c; }
\* print b; } print a;` prints neither 2 nor 1 and leaves a = 1, and a later
\* `print a;` prints 1.
C12_RuntimeErrorStopsCall ==
    /\ [][(Running("interpret") /\ Failed)
          => /\ stack' = <<>>
             /\ result' = "Err"
             /\ out' = out \o <<"Failed to interpret statement.", ret.err>>
             /\ heap' = heap
             /\ environment' = environment]_vars
    /\ [][stack = <<>> => (heap' = heap /\ environment' = environment)]_vars
    /\ [](Done(ProgBlockErr)
          => /\ result = "Err"
             /\ out = <<"Failed to interpret statement.", "Variable 'c' is undefined.">>
             /\ get(heap, environment, Tok("Identifier", "a")) = Some(Number(1)))
    /\ []((Done(ProgUseGlobal) /\ "a" \in DOMAIN heap[1].values)
          => (out /= <<>> /\ out[1] = "1"))

\* a call has failed at its second statement: the global defined by the
\* first one is there and nothing was printed by the third
C12_Witness ==
    /\ Done(ProgBlockErr)
    /\ result = "Err"
    /\ calls = 1
    /\ heap[1].values = [k \in {"a"} |-> Number(1)]
    /\ out = <<"Failed to interpret statement.", "Variable 'c' is undefined.">>
\* C14: a `var` statement that returns Ok has bound its name in the current
\* scope, with an initializer and without one: a get of the name from that
\* scope right after the statement succeeds.
C14_VarAlwaysBinds ==
    [][(Executing("Variable") /\ ret' = RetOk)
       => get(heap', environment', Top.stmt.name).some]_vars
\* the names the programs use, and one that none of them defines
NamesTried == {"a", "b", "i", "x", "y", "z"}

\* C15: in every state the evaluator reaches, assigning to a name that no
\* scope of the current chain defines returns the runtime error "Variable
\* '<name>' does not exist." and leaves every scope as it was; `print nil or
\* (y = 2);` with no y fails with that error and y stays unbound.
C15_AssignUndefinedFails ==
    /\ \A n \in NamesTried :
          ~get(heap, environment, Tok("Identifier", n)).some
          => LET a == evaluate(Assign(n, Num(7)), heap, environment) IN
             /\ a.res = Err("Variable '" \o n \o "' does not exist.")
             /\ a.heap = heap
             /\ assign(heap, environment, Tok("Identifier", n), Number(7))
                   = [res |-> a.res, heap |-> heap]
    /\ Done(ProgLogical)
       => /\ result = "Err"
          /\ out[Len(out)] = "Variable 'y' does not exist."
          /\ \A id \in 1..Len(heap) : "y" \notin DOMAIN heap[id].values

\* the assignment y = 2 of ProgLogical has just failed, two scopes deep in a
\* later call or at the global scope
C15_Witness ==
    /\ program = ProgramIndex(ProgLogical)
    /\ lastEval.some
    /\ lastEval.r.res = Err("Variable 'y' does not exist.")
    /\ lastEval.r.heap = lastEval.heap
    /\ heap = lastEval.heap
    /\ ~get(heap, environment, Tok("Identifier", "y")).some
-----------------------------------------------------------------------------
(* scanner.rs.  The Scanner is the record sc = [source, tokens, start,     *)
(* current, line, is_error, reported, panic]; reported is the lines that   *)
(* report_error has printed, panic is set when the source would index out  *)
(* of bounds.  start and current are 0-based as in the source, so the      *)
(* character at index i is sc.source[i + 1].                               *)

NUL == "NUL"    \* the character '\0'

Digits == {"0", "1", "2", "3", "4", "5", "6", "7", "8", "9"}
Letters ==
    {"a", "b", "c", "d", "e", "f", "g", "h", "i", "j", "k", "l", "m", "n", "o",
     "p", "q", "r", "s", "t", "u", "v", "w", "x", "y", "z",
     "A", "B", "C", "D", "E", "F", "G", "H", "I", "J", "K", "L", "M", "N", "O",
     "P", "Q", "R", "S", "T", "U", "V", "W", "X", "Y", "Z"}

\* char::is_digit(10), char::is_alphabetic, char::is_alphanumeric (on ASCII)
is_digit(c) == c \in Digits
is_alphabetic(c) == c \in Letters
is_alphanumeric(c) == c \in Letters \cup Digits

\* Scanner::new, lines 69-86
keywords ==
    { <<"and", "And">>, <<"class", "Class">>, <<"else", "Else">>,
      <<"false", "False">>, <<"fun", "Fun">>, <<"for", "For">>, <<"if", "If">>,
      <<"nil", "Nil">>, <<"or", "Or">>, <<"print", "Print">>,
      <<"return", "Return">>, <<"super", "Super">>, <<"this", "This">>,
      <<"true", "True">>, <<"var", "Var">>, <<"while", "While">> }

\* HashMap::get on keywords
keywords_get(text) ==
    IF \E kw \in keywords : kw[1] = text
    THEN Some((CHOOSE kw \in keywords : kw[1] = text)[2])
    ELSE None

\* String::from_iter(source[from..to]), from and to 0-based
RECURSIVE Slice(_, _, _)
Slice(src, from, to) ==
    IF from >= to THEN "" ELSE src[from + 1] \o Slice(src, from + 1, to)

DigitValue(c) == CHOOSE n \in 0..9 : ToString(n) = c

\* the value of a run of digits
RECURSIVE ParseDigits(_, _, _, _)
ParseDigits(src, from, to, acc) ==
    IF from >= to THEN acc
    ELSE ParseDigits(src, from + 1, to, 10 * acc + DigitValue(src[from + 1]))

\* index of the '.' in src[from..to], or to when there is none
RECURSIVE DotIndex(_, _, _)
DotIndex(src, from, to) ==
    IF from >= to \/ src[from + 1] = "." THEN from ELSE DotIndex(src, from + 1, to)

\* end of src[from..to] without its trailing zeros
RECURSIVE TrimZeros(_, _, _)
TrimZeros(src, from, to) ==
    IF to > from /\ src[to] = "0" THEN TrimZeros(src, from, to - 1) ELSE to

\* str::parse::<f64> on a lexeme digits ('.' digits)?: the f64 is kept as its
\* integer part (num) and its fraction digits without trailing zeros (str),
\* so 1.0 and 1 are the same number and a whole number is Number(n)
parse_f64(src, from, to) ==
    LET dot == DotIndex(src, from, to) IN
    [tag |-> "Number",
     num |-> ParseDigits(src, from, dot, 0),
     str |-> IF dot >= to THEN "" ELSE Slice(src, dot + 1, TrimZeros(src, dot + 1, to)),
     bool |-> FALSE]

Token(token_type, lexeme, literal, ln) ==
    [token_type |-> token_type, lexeme |-> lexeme, literal |-> literal, line |-> ln]

Scanner_new(src) ==
    [source |-> src, tokens |-> <<>>, start |-> 0, current |-> 0, line |-> 0,
     is_error |-> FALSE, reported |-> <<>>, panic |-> FALSE]

sc_is_at_end(sc) == sc.current >= Len(sc.source)

\* Scanner::advance; reading past the end of source panics
sc_advance(sc) ==
    IF sc.current >= Len(sc.source)
    THEN [sc EXCEPT !.panic = TRUE]
    ELSE [sc EXCEPT !.current = @ + 1]

add_token_literal(sc, token_type, literal) ==
    [sc EXCEPT !.tokens =
        Append(@, Token(token_type, Slice(sc.source, sc.start, sc.current),
                        literal, sc.line))]

add_token(sc, token_type) == add_token_literal(sc, token_type, None)

\* Scanner::check_next: the scanner after the call, and the bool returned
check_next(sc, expected) ==
    IF sc_is_at_end(sc) THEN [sc |-> sc, matched |-> FALSE]
    ELSE IF sc.source[sc.current + 1] /= expected THEN [sc |-> sc, matched |-> FALSE]
    ELSE [sc |-> [sc EXCEPT !.current = @ + 1], matched |-> TRUE]

sc_peek(sc) == IF sc_is_at_end(sc) THEN NUL ELSE sc.source[sc.current + 1]

peek_next(sc) ==
    IF sc.current + 1 >= Len(sc.source) THEN NUL ELSE sc.source[sc.current + 2]

\* report_error reports the first error only
report_error_mut(sc, message) ==
    IF sc.is_error THEN sc
    ELSE [sc EXCEPT !.is_error = TRUE,
                    !.reported = Append(@, "[line " \o ToString(sc.line)
                                           \o "] Error: " \o message)]

report_error(sc, message) ==
    [sc EXCEPT !.is_error = TRUE,
               !.reported = Append(@, "[line " \o ToString(sc.line)
                                      \o "] Error: " \o message)]

\* the comment stops at the first character after the slashes
SkipComment_mut(sc) == IF sc_is_at_end(sc) THEN sc ELSE sc_advance(sc)

\* scan_token, lines 153-155
RECURSIVE SkipComment(_)
SkipComment(sc) ==
    IF sc_peek(sc) /= "\n" /\ ~sc_is_at_end(sc)
    THEN SkipComment(sc_advance(sc))
    ELSE sc

\* scan_string, lines 221-226
RECURSIVE StringBody(_)
StringBody(sc) ==
    IF sc_peek(sc) /= "\"" /\ ~sc_is_at_end(sc)
    THEN StringBody(sc_advance(IF sc_peek(sc) = "\n"
                               THEN [sc EXCEPT !.line = @ + 1] ELSE sc))
    ELSE sc

scan_string(sc) ==
    LET body == StringBody(sc) IN
    IF sc_is_at_end(body) THEN report_error(body, "unterminated string.")
    ELSE LET closed == sc_advance(body) IN
         add_token_literal(closed, "String",
             Some(Str(Slice(closed.source, closed.start + 1, closed.current - 1))))

\* scan_number, lines 240-242 and 249-251
RECURSIVE DigitRun(_)
DigitRun(sc) == IF is_digit(sc_peek(sc)) THEN DigitRun(sc_advance(sc)) ELSE sc

scan_number(sc) ==
    LET int == DigitRun(sc)
        all == IF sc_peek(int) = "." /\ is_digit(peek_next(int))
               THEN DigitRun(sc_advance(int))
               ELSE int
    IN add_token_literal(all, "Number",
                         Some(parse_f64(all.source, all.start, all.current)))

\* scan_identifier, lines 260-262
RECURSIVE AlnumRun(_)
AlnumRun(sc) == IF is_alphanumeric(sc_peek(sc)) THEN AlnumRun(sc_advance(sc)) ELSE sc

scan_identifier(sc) ==
    LET all == AlnumRun(sc)
        text == Slice(all.source, all.start, all.current)
    IN IF keywords_get(text).some
       THEN add_token(all, keywords_get(text).val)
       ELSE add_token_literal(all, "Identifier", Some(Identifier(text)))

SingleCharTokens ==
    { <<"(", "LeftParen">>, <<")", "RightParen">>, <<"{", "LeftBrace">>,
      <<"}", "RightBrace">>, <<",", "Comma">>, <<".", "Dot">>, <<"-", "Minus">>,
      <<"+", "Plus">>, <<";", "Semicolon">>, <<"*", "Star">> }

\* '!', '=', '<', '>': the token with and without a following '='
OneOrTwoCharTokens ==
    { <<"!", "BangEqual", "Bang">>, <<"=", "EqualEqual", "Equal">>,
      <<"<", "LessEqual", "Less">>, <<">", "GreaterEqual", "Greater">> }

\* Scanner::scan_token
scan_token(sc0) ==
    LET character == sc0.source[sc0.current + 1]
        sc == sc_advance(sc0)
    IN IF \E t \in SingleCharTokens : t[1] = character
       THEN add_token(sc, (CHOOSE t \in SingleCharTokens : t[1] = character)[2])
       ELSE IF \E t \in OneOrTwoCharTokens : t[1] = character
       THEN LET t == CHOOSE t \in OneOrTwoCharTokens : t[1] = character
                c == check_next(sc, "=")
            IN add_token(c.sc, IF c.matched THEN t[2] ELSE t[3])
       ELSE IF character = "/"
       THEN LET c == check_next(sc, "/")
            IN IF c.matched THEN SkipComment(c.sc) ELSE add_token(sc, "Slash")
       ELSE IF character \in {" ", "\r", "\t"} THEN sc
       ELSE IF character = "\n" THEN [sc EXCEPT !.line = @ + 1]
       ELSE IF character = "\"" THEN scan_string(sc)
       ELSE IF is_digit(character) THEN scan_number(sc)
       ELSE IF is_alphabetic(character) \/ character = "_" THEN scan_identifier(sc)
       ELSE report_error(sc, "unknown character.")

-----------------------------------------------------------------------------
(* Scanner::scan_tokens as a state machine over every short source text    *)
(* and over the sources of the scanner's tests.                            *)

Alphabet == {"o", "r", "1", ".", "\"", "/", "\n", " ", "=", "#"}

SourcesUpTo(n) == UNION {[1..k -> Alphabet] : k \in 0..n}

\* "var a = 5;"
SrcAssignment == <<"v", "a", "r", " ", "a", " ", "=", " ", "5", ";">>
\* "5 + 2;"
SrcNumberAddition == <<"5", " ", "+", " ", "2", ";">>
\* "\"hello \" + \"world\";"
SrcStringAddition ==
    <<"\"", "h", "e", "l", "l", "o", " ", "\"", " ", "+", " ",
      "\"", "w", "o", "r", "l", "d", "\"", ";">>
\* "5 - 2;"
SrcSubtraction == <<"5", " ", "-", " ", "2", ";">>
\* "5.4 - 2.03;"
SrcFloatingPoints == <<"5", ".", "4", " ", "-", " ", "2", ".", "0", "3", ";">>
\* "var a = 5; // set\n  _b1 >= a"
SrcComment ==
    <<"v", "a", "r", " ", "a", " ", "=", " ", "5", ";", " ", "/", "/", " ",
      "s", "e", "t", "\n", "\t", "_", "b", "1", " ", ">", "=", " ", "a">>

\* "while (a) break;"
SrcBreak ==
    <<"w", "h", "i", "l", "e", " ", "(", "a", ")", " ",
      "b", "r", "e", "a", "k", ";">>

TestSources ==
    {SrcAssignment, SrcNumberAddition, SrcStringAddition, SrcSubtraction,
     SrcFloatingPoints, SrcComment, SrcBreak}

\* the Scanner as the record the operators above work on
TheScanner ==
    [source |-> source, tokens |-> tokens, start |-> start, current |-> current,
     line |-> line, is_error |-> is_error, reported |-> reported,
     panic |-> scanned = "panic"]

\* no interpret call is going on
EvaluatorIdle ==
    /\ is_repl = FALSE
    /\ heap = <<Environment_new>>
    /\ environment = 1
    /\ stack = <<>>
    /\ ret = NoRet
    /\ out = <<>>
    /\ result = "none"
    /\ calls = 0
    /\ program = 0
    /\ lastEval = NoEval

\* scan_tokens(source): Scanner::new
ScanInit ==
    /\ EvaluatorIdle
    /\ ParserIdle
    /\ source \in SourcesUpTo(MaxSrcLen) \cup TestSources
    /\ tokens = <<>>
    /\ start = 0
    /\ current = 0
    /\ line = 0
    /\ is_error = FALSE
    /\ reported = <<>>
    /\ scanned = "no"

\* Scanner::scan_tokens, lines 91-94: one turn of the loop
ScanToken ==
    /\ scanned = "no"
    /\ ~sc_is_at_end(TheScanner)
    /\ LET sc == scan_token([TheScanner EXCEPT !.start = current]) IN
       /\ tokens' = sc.tokens
       /\ start' = sc.start
       /\ current' = sc.current
       /\ line' = sc.line
       /\ is_error' = sc.is_error
       /\ reported' = sc.reported
       /\ scanned' = IF sc.panic THEN "panic" ELSE "no"
    /\ UNCHANGED <<source, evalVars, parseVars>>

\* Scanner::scan_tokens, lines 96-102: the EOF token and the result
ScanEnd ==
    /\ scanned = "no"
    /\ sc_is_at_end(TheScanner)
    /\ tokens' = add_token(TheScanner, "EOF").tokens
    /\ scanned' = IF ~is_error THEN "Ok" ELSE "Err"
    /\ UNCHANGED <<source, start, current, line, is_error, reported, evalVars,
                   parseVars>>

ScanNext == ScanToken \/ ScanEnd

ScanSpec == ScanInit /\ [][ScanNext]_vars

-----------------------------------------------------------------------------
(* Properties of the scanner *)

TokenTypes(toks) == [i \in 1..Len(toks) |-> toks[i].token_type]

\* the scanner is about to scan a token beginning with the characters cs
ScansAt(cs) ==
    /\ scanned = "no"
    /\ current + Len(cs) <= Len(source)
    /\ \A i \in 1..Len(cs) : source[current + i] = cs[i]

\* C8: the scanner never reads outside the source and start <= current <=
\* length always holds; every turn of the scan loop moves current forward,
\* so the scan ends after at most length turns; the tokens returned on
\* success hold exactly one EOF, as their last element; a turn that begins at
\* white space or at a comment adds no token (and the comment is skipped up
\* to the end of its line); "var a = 5;" gives Var Identifier Equal Number
\* Semicolon EOF.
C8_ScannerTotal ==
    /\ [](start <= current /\ current <= Len(source) /\ scanned /= "panic")
    /\ [][scanned = "no" => current' > current \/ scanned' \in {"Ok", "Err"}]_vars
    /\ [](scanned = "Ok"
            => /\ tokens /= <<>>
               /\ \A i \in 1..Len(tokens) :
                     tokens[i].token_type = "EOF" <=> i = Len(tokens))
    /\ [][(\E c \in {" ", "\r", "\t", "\n"} : ScansAt(<<c>>)) => tokens' = tokens]_vars
    /\ [][ScansAt(<<"/", "/">>)
            => /\ tokens' = tokens
               /\ \A i \in (current + 1)..current' : source[i] /= "\n"
               /\ current' = Len(source) \/ source[current' + 1] = "\n"]_vars
    /\ []((source = SrcAssignment /\ scanned = "Ok")
            => TokenTypes(tokens) =
                  <<"Var", "Identifier", "Equal", "Number", "Semicolon", "EOF">>)

\* a source with white space and a comment on its first line has been
\* scanned with success
C8_Witness ==
    /\ source = SrcComment
    /\ scanned = "Ok"
    /\ TokenTypes(tokens) =
          <<"Var", "Identifier", "Equal", "Number", "Semicolon",
            "Identifier", "GreaterEqual", "Identifier", "EOF">>
    /\ tokens[6].lexeme = "_b1"

\* the number of newline characters among the first n characters of src
RECURSIVE NewlinesBefore(_, _)
NewlinesBefore(src, n) ==
    IF n = 0 THEN 0
    ELSE NewlinesBefore(src, n - 1) + (IF src[n] = "\n" THEN 1 ELSE 0)

\* C16: the line of a token is the 1-indexed line of its first character:
\* when a turn of the scan loop adds a token, the token's line is 1 plus the
\* number of newlines before the character the turn began at, so a token on
\* the first line of the source has line 1.
C16_TokenLineIsOneIndexed ==
    [][(scanned = "no" /\ scanned' = "no" /\ Len(tokens') > Len(tokens))
       => tokens'[Len(tokens')].line = 1 + NewlinesBefore(source, start')]_vars
\* the keyword table the language defines: the lexemes and their token kinds
LanguageKeywords ==
    keywords \cup { <<"break", "Break">> }

\* C17: a lexeme that has the shape of an identifier is emitted as a keyword
\* token without literal exactly when it is one of the 17 keywords of the
\* language, `break` among them; any other one is emitted as Identifier with
\* the literal Identifier(lexeme).
C17_KeywordResolution ==
    [][(scanned = "no" /\ scanned' = "no" /\ current < Len(source)
          /\ (is_alphabetic(source[current + 1]) \/ source[current + 1] = "_"))
       => /\ Len(tokens') = Len(tokens) + 1
          /\ LET token == tokens'[Len(tokens')] IN
             IF \E kw \in LanguageKeywords : kw[1] = token.lexeme
             THEN /\ <<token.lexeme, token.token_type>> \in LanguageKeywords
                  /\ token.literal = None
             ELSE /\ token.token_type = "Identifier"
                  /\ token.literal = Some(Identifier(token.lexeme))]_vars

\* the scanner is about to scan a string that has no closing quote
ScansOpenString ==
    /\ ScansAt(<<"\"">>)
    /\ \A i \in (current + 2)..Len(source) : source[i] /= "\""

\* C24: an error does not stop the scan: a turn of the loop that begins at an
\* unknown character or at a string without its closing quote reports the
\* error and sets the flag, whether or not the flag is set already, and the
\* loop goes on; the scan ends at the end of the source only, with the
\* failure when the flag is set, whatever tokens came after the error; the
\* flag, once set, stays set.
C24_ScanGoesOnAfterError ==
    /\ [][is_error => is_error']_vars
    /\ [](is_error <=> reported /= <<>>)
    /\ [](scanned \in {"Ok", "Err"}
            => /\ current = Len(source)
               /\ scanned = "Err" <=> is_error)
    /\ [][ScansAt(<<"#">>)
            => /\ reported' = Append(reported, "[line " \o ToString(line)
                                               \o "] Error: unknown character.")
               /\ is_error'
               /\ current' = current + 1
               /\ tokens' = tokens
               /\ scanned' = "no"]_vars
    /\ [][ScansOpenString
            => /\ reported' = Append(reported, "[line " \o ToString(line')
                                               \o "] Error: unterminated string.")
               /\ is_error'
               /\ current' = Len(source)
               /\ tokens' = tokens
               /\ scanned' = "no"]_vars

\* #=#"   two unknown characters and a string without its end have been
\* reported, the token between them has been scanned, the scan has failed
C24_Witness ==
    /\ source = <<"#", "=", "#", "\"">>
    /\ scanned = "Err"
    /\ TokenTypes(tokens) = <<"Equal", "EOF">>
    /\ reported = <<"[line 0] Error: unknown character.",
                    "[line 0] Error: unknown character.",
                    "[line 0] Error: unterminated string.">>
-----------------------------------------------------------------------------
(* parser.rs.  The Parser is the record ps = [tokens, current, loop_count],*)
(* current 0-based as in the source: the token at index i is               *)
(* ps.tokens[i + 1].  The parsing methods call one another recursively;    *)
(* the calls in progress are the frames of a stack, the innermost last.    *)
(* A frame is [fn, pc, x, y, z]: the method, the place in its body where   *)
(* it goes on when the call it made returns (0: its beginning), and its    *)
(* locals.  A method is an operator m(f, r, ps) of its frame f, the Result *)
(* r of the call it made last, and the parser; it runs the method up to    *)
(* its next call or to its return.                                         *)

Parser_new(toks) == [tokens |-> toks, current |-> 0, loop_count |-> 0]

peek(ps) == ps.tokens[ps.current + 1]

\* Parser::previous reads tokens[current - 1]: it panics when current is 0
previous_panics(ps) == ps.current = 0
previous(ps) == ps.tokens[ps.current]

is_at_end(ps) == peek(ps).token_type = "EOF"

is_in_loop(ps) == ps.loop_count /= 0

check(ps, token_type) ==
    IF is_at_end(ps) THEN FALSE ELSE peek(ps).token_type = token_type

\* Parser::advance: the parser after the call; the token returned is
\* previous() of it
advance(ps) == IF ~is_at_end(ps) THEN [ps EXCEPT !.current = @ + 1] ELSE ps

\* Parser::match_tokens: the parser after the call, and the bool returned
match_tokens(ps, token_types) ==
    IF \E t \in token_types : check(ps, t)
    THEN [ps |-> advance(ps), matched |-> TRUE]
    ELSE [ps |-> ps, matched |-> FALSE]

\* Parser::consume: the parser after the call, and the Option<Token> returned
consume(ps, token_type) ==
    IF check(ps, token_type)
    THEN [ps |-> advance(ps), tok |-> Some(previous(advance(ps)))]
    ELSE [ps |-> ps, tok |-> None]

Frame(fn, arg) == [fn |-> fn, pc |-> 0, x |-> arg, y |-> None, z |-> None]

\* the method returns res
Returns(ps, res) == [kind |-> "return", ps |-> ps, res |-> res]

\* the method calls callee(arg) and goes on as frame when it returns
Calls(ps, frame, callee, arg) ==
    [kind |-> "call", ps |-> ps, frame |-> frame, callee |-> callee, arg |-> arg]

\* the method returns what callee(arg) returns
ReturnsCall(ps, callee, arg) ==
    [kind |-> "tail", ps |-> ps, callee |-> callee, arg |-> arg]

\* the method aborts the process: an index out of bounds, an unwrap of None
Panics(ps) == [kind |-> "panic", ps |-> ps]

\* return Err(self.generate_error(message))
p_generate_error(ps, message) ==
    IF previous_panics(ps) THEN Panics(ps)
    ELSE Returns(ps, Err("[line " \o ToString(previous(ps).line) \o "] Error: "
                         \o message))

primary(f, r, ps) ==
    IF f.pc = 0
    THEN CASE check(ps, "False") -> Returns(advance(ps), Ok(Literal(Bool(FALSE))))
           [] check(ps, "True") -> Returns(advance(ps), Ok(Literal(Bool(TRUE))))
           [] check(ps, "Nil") -> Returns(advance(ps), Ok(Literal(Nil)))
           [] check(ps, "Number") \/ check(ps, "String") ->
                 IF peek(ps).literal.some
                 THEN Returns(advance(ps), Ok(Literal(peek(ps).literal.val)))
                 ELSE Panics(advance(ps))
           [] check(ps, "Identifier") ->
                 Returns(advance(ps), Ok([expr |-> "Variable", name |-> peek(ps)]))
           [] check(ps, "LeftParen") ->
                 Calls(advance(ps), [f EXCEPT !.pc = 1], "expression", None)
           [] OTHER -> p_generate_error(ps, "Primary token not found.")
    ELSE \* line 423: expression()? has returned
         IF ~r.ok THEN Returns(ps, r)
         ELSE LET c == consume(ps, "RightParen") IN
              IF c.tok.some THEN Returns(c.ps, Ok(Grouping(r.value)))
              ELSE p_generate_error(c.ps, "Expect ')' after expression.")

\* finish_call, lines 403-408; f.x is the callee, f.y the arguments
FinishCallEnd(f, ps) ==
    LET paren == consume(ps, "RightParen") IN
    IF paren.tok.some
    THEN Returns(paren.ps, Ok([expr |-> "Call", callee |-> f.x,
                               paren |-> paren.tok.val, arguments |-> f.y]))
    ELSE Returns(paren.ps, Err("Expect ')' after arguments."))

finish_call(f, r, ps) ==
    IF f.pc = 0
    THEN IF ~check(ps, "RightParen")
         THEN Calls(ps, [f EXCEPT !.pc = 1, !.y = <<>>], "expression", None)
         ELSE FinishCallEnd([f EXCEPT !.y = <<>>], ps)
    ELSE \* line 396: expression()? has returned
         IF ~r.ok THEN Returns(ps, r)
         ELSE LET arguments == Append(f.y, r.value)
                  m == match_tokens(ps, {"Comma"})
              IN IF m.matched
                 THEN FinishCallEnd([f EXCEPT !.y = arguments], m.ps)
                 ELSE Calls(m.ps, [f EXCEPT !.y = arguments], "expression", None)

call(f, r, ps) ==
    IF f.pc = 0
    THEN Calls(ps, [f EXCEPT !.pc = 1], "primary", None)
    ELSE \* primary()? or finish_call(expr)? has returned
         IF ~r.ok THEN Returns(ps, r)
         ELSE LET m == match_tokens(ps, {"LeftParen"}) IN
              IF m.matched THEN Calls(m.ps, f, "finish_call", r.value)
              ELSE Returns(m.ps, r)

unary(f, r, ps) ==
    IF f.pc = 0
    THEN LET m == match_tokens(ps, {"Bang", "Minus"}) IN
         IF m.matched
         THEN Calls(m.ps, [f EXCEPT !.pc = 1, !.x = previous(m.ps)], "unary", None)
         ELSE ReturnsCall(m.ps, "call", None)
    ELSE \* line 364: unary()? has returned; f.x is the operator
         IF ~r.ok THEN Returns(ps, r)
         ELSE Returns(ps, Ok([expr |-> "Unary", operator |-> f.x, right |-> r.value]))

BinaryNode(left, operator, right) ==
    [expr |-> "Binary", left |-> left, operator |-> operator, right |-> right]

LogicalNode(left, operator, right) ==
    [expr |-> "Logical", left |-> left, operator |-> operator, right |-> right]

\* The shape or, and, equality, comparison, term and factor share:
\*     let mut expr = self.first()?;
\*     while self.match_tokens(token_types) {
\*         let operator = self.previous().clone();
\*         let right = self.operand()?;
\*         expr = <variant> { left: expr, operator, right }
\*     }
\*     Ok(expr)
\* f.x is expr and f.y operator while operand() runs (pc = 2)
FoldLevel(f, r, ps, first, token_types, operand, variant) ==
    IF f.pc = 0
    THEN Calls(ps, [f EXCEPT !.pc = 1], first, None)
    ELSE IF ~r.ok THEN Returns(ps, r)
    ELSE LET expr == IF f.pc = 1 THEN r.value
                     ELSE IF variant = "Binary" THEN BinaryNode(f.x, f.y, r.value)
                     ELSE LogicalNode(f.x, f.y, r.value)
             m == match_tokens(ps, token_types)
         IN IF m.matched
            THEN Calls(m.ps, [f EXCEPT !.pc = 2, !.x = expr, !.y = previous(m.ps)],
                       operand, None)
            ELSE Returns(m.ps, Ok(expr))

factor(f, r, ps) == FoldLevel(f, r, ps, "unary", {"Slash", "Star"}, "unary", "Binary")

\* term parses its operands with unary
term_mut(f, r, ps) ==
    FoldLevel(f, r, ps, "unary", {"Minus", "Plus"}, "unary", "Binary")

term(f, r, ps) == FoldLevel(f, r, ps, "factor", {"Minus", "Plus"}, "factor", "Binary")

comparison(f, r, ps) ==
    FoldLevel(f, r, ps, "term", {"Greater", "GreaterEqual", "Less", "LessEqual"},
              "term", "Binary")

equality(f, r, ps) ==
    FoldLevel(f, r, ps, "comparison", {"BangEqual", "EqualEqual"}, "comparison",
              "Binary")

\* and folds its operands to the left, as or does
and_mut(f, r, ps) ==
    FoldLevel(f, r, ps, "equality", {"And"}, "equality", "Logical")

\* the right operand of and is parsed by and itself (line 290)
and(f, r, ps) == FoldLevel(f, r, ps, "equality", {"And"}, "and", "Logical")

or(f, r, ps) == FoldLevel(f, r, ps, "and", {"Or"}, "and", "Logical")

assignment(f, r, ps) ==
    CASE f.pc = 0 -> Calls(ps, [f EXCEPT !.pc = 1], "or", None)
      [] f.pc = 1 -> \* line 257: or()? has returned
            IF ~r.ok THEN Returns(ps, r)
            ELSE LET m == match_tokens(ps, {"Equal"}) IN
                 IF m.matched
                 THEN Calls(m.ps, [f EXCEPT !.pc = 2, !.x = r.value], "assignment", None)
                 ELSE Returns(m.ps, r)
      [] f.pc = 2 -> \* line 260: assignment()? has returned; f.x is expr
            IF ~r.ok THEN Returns(ps, r)
            ELSE IF f.x.expr = "Variable"
            THEN Returns(ps, Ok([expr |-> "Assign", name |-> f.x.name,
                                 value |-> r.value]))
            ELSE p_generate_error(ps, "Invalid assignment target.")

expression(f, r, ps) == ReturnsCall(ps, "assignment", None)

expression_statement(f, r, ps) ==
    IF f.pc = 0
    THEN Calls(ps, [f EXCEPT !.pc = 1], "expression", None)
    ELSE IF ~r.ok THEN Returns(ps, r)
    ELSE LET c == consume(ps, "Semicolon") IN
         IF c.tok.some THEN Returns(c.ps, Ok(ExpressionStmt(r.value)))
         ELSE p_generate_error(c.ps, "Expect ';' after value.")

print_statement(f, r, ps) ==
    IF f.pc = 0
    THEN Calls(ps, [f EXCEPT !.pc = 1], "expression", None)
    ELSE IF ~r.ok THEN Returns(ps, r)
    ELSE LET c == consume(ps, "Semicolon") IN
         IF c.tok.some THEN Returns(c.ps, Ok(PrintStmt(r.value)))
         ELSE p_generate_error(c.ps, "Expect ';' after value.")

\* var_declaration drops the initializer
VarDeclarationEnd_mut(ps, name, initializer) ==
    LET c == consume(ps, "Semicolon") IN
    IF c.tok.some
    THEN Returns(c.ps, Ok([stmt |-> "Variable", name |-> name,
                           initializer |-> None]))
    ELSE p_generate_error(c.ps, "Expect ';' after variable decleration.")

\* var_declaration, lines 68-73
VarDeclarationEnd(ps, name, initializer) ==
    LET c == consume(ps, "Semicolon") IN
    IF c.tok.some
    THEN Returns(c.ps, Ok([stmt |-> "Variable", name |-> name,
                           initializer |-> initializer]))
    ELSE p_generate_error(c.ps, "Expect ';' after variable decleration.")

var_declaration(f, r, ps) ==
    IF f.pc = 0
    THEN LET name == consume(ps, "Identifier") IN
         IF ~name.tok.some THEN p_generate_error(name.ps, "Expect variable name.")
         ELSE LET m == match_tokens(name.ps, {"Equal"}) IN
              IF m.matched
              THEN Calls(m.ps, [f EXCEPT !.pc = 1, !.x = name.tok.val], "expression", None)
              ELSE VarDeclarationEnd(m.ps, name.tok.val, None)
    ELSE \* line 62: expression() has returned; f.x is name
         IF ~r.ok THEN Returns(ps, r)
         ELSE VarDeclarationEnd(ps, f.x, Some(r.value))

\* self.loop_count += 1 and the call of statement() for the body of a loop
EnterLoopBody(ps, frame) ==
    Calls([ps EXCEPT !.loop_count = @ + 1], frame, "statement", None)

\* let body = self.statement()?; self.loop_count -= 1: the parser after it
\* when statement returned Ok (the ? returns before the decrement)
LeaveLoopBody(ps) == [ps EXCEPT !.loop_count = @ - 1]

while_statement(f, r, ps) ==
    CASE f.pc = 0 ->
            LET l == consume(ps, "LeftParen") IN
            IF ~l.tok.some THEN p_generate_error(l.ps, "Expect '(' after 'while'.")
            ELSE Calls(l.ps, [f EXCEPT !.pc = 1], "expression", None)
      [] f.pc = 1 -> \* line 117: expression()? has returned
            IF ~r.ok THEN Returns(ps, r)
            ELSE LET c == consume(ps, "RightParen") IN
                 IF ~c.tok.some THEN p_generate_error(c.ps, "Expect ')' after condition.")
                 ELSE EnterLoopBody(c.ps, [f EXCEPT !.pc = 2, !.x = r.value])
      [] f.pc = 2 -> \* line 125: statement()? has returned; f.x is condition
            IF ~r.ok THEN Returns(ps, r)
            ELSE Returns(LeaveLoopBody(ps), Ok(While(f.x, r.value)))

\* for_statement, lines 170-183
Desugar(initializer, condition, increment, body) ==
    LET b1 == IF increment.some
              THEN Block(<<body, ExpressionStmt(increment.val)>>)
              ELSE body
        b2 == While(IF condition.some THEN condition.val ELSE Literal(Bool(TRUE)), b1)
    IN IF initializer.some THEN Block(<<initializer.val, b2>>) ELSE b2

\* for_statement, lines 161-166; f.x, f.y, f.z are initializer, condition
\* and increment
ForBody(f, ps) ==
    LET c == consume(ps, "RightParen") IN
    IF ~c.tok.some THEN p_generate_error(c.ps, "Expect ')' after for clauses.")
    ELSE EnterLoopBody(c.ps, [f EXCEPT !.pc = 4])

\* for_statement, lines 151-159
ForIncrement(f, ps) ==
    LET c == consume(ps, "Semicolon") IN
    IF ~c.tok.some THEN p_generate_error(c.ps, "Expect ';' after loop condition.")
    ELSE IF ~check(c.ps, "RightParen")
    THEN Calls(c.ps, [f EXCEPT !.pc = 3], "expression", None)
    ELSE ForBody([f EXCEPT !.z = None], c.ps)

\* for_statement, lines 146-149
ForCondition(f, ps) ==
    IF ~check(ps, "Semicolon")
    THEN Calls(ps, [f EXCEPT !.pc = 2], "expression", None)
    ELSE ForIncrement([f EXCEPT !.y = None], ps)

for_statement(f, r, ps) ==
    CASE f.pc = 0 ->
            LET l == consume(ps, "LeftParen") IN
            IF ~l.tok.some THEN p_generate_error(l.ps, "Expect '(' after 'for'.")
            ELSE IF check(l.ps, "Semicolon")
            THEN ForCondition([f EXCEPT !.x = None], advance(l.ps))
            ELSE IF check(l.ps, "Var")
            THEN Calls(advance(l.ps), [f EXCEPT !.pc = 1], "var_declaration", None)
            ELSE Calls(l.ps, [f EXCEPT !.pc = 1], "expression_statement", None)
      [] f.pc = 1 -> \* lines 141, 143: the initializer has been parsed
            IF ~r.ok THEN Returns(ps, r)
            ELSE ForCondition([f EXCEPT !.x = Some(r.value)], ps)
      [] f.pc = 2 -> \* line 148: the condition has been parsed
            IF ~r.ok THEN Returns(ps, r)
            ELSE ForIncrement([f EXCEPT !.y = Some(r.value)], ps)
      [] f.pc = 3 -> \* line 158: the increment has been parsed
            IF ~r.ok THEN Returns(ps, r)
            ELSE ForBody([f EXCEPT !.z = Some(r.value)], ps)
      [] f.pc = 4 -> \* line 167: statement()? has returned
            IF ~r.ok THEN Returns(ps, r)
            ELSE Returns(LeaveLoopBody(ps), Ok(Desugar(f.x, f.y, f.z, r.value)))

break_statement(f, r, ps) ==
    IF ~is_in_loop(ps)
    THEN p_generate_error(ps, "'break' statement must be in a loop block.")
    ELSE LET c == consume(ps, "Semicolon") IN
         IF c.tok.some THEN Returns(c.ps, Ok(Break))
         ELSE p_generate_error(c.ps, "Expect ';' after 'break'.")

if_statement(f, r, ps) ==
    CASE f.pc = 0 ->
            LET l == consume(ps, "LeftParen") IN
            IF ~l.tok.some THEN p_generate_error(l.ps, "Expect '(' after 'if'.")
            ELSE Calls(l.ps, [f EXCEPT !.pc = 1], "expression", None)
      [] f.pc = 1 -> \* line 203: expression()? has returned
            IF ~r.ok THEN Returns(ps, r)
            ELSE LET c == consume(ps, "RightParen") IN
                 IF ~c.tok.some
                 THEN p_generate_error(c.ps, "Expect ')' after if condition.")
                 ELSE Calls(c.ps, [f EXCEPT !.pc = 2, !.x = r.value], "statement", None)
      [] f.pc = 2 -> \* line 210: statement()? has returned; f.x is condition
            IF ~r.ok THEN Returns(ps, r)
            ELSE LET m == match_tokens(ps, {"Else"}) IN
                 IF m.matched
                 THEN Calls(m.ps, [f EXCEPT !.pc = 3, !.y = r.value], "statement", None)
                 ELSE Returns(m.ps, Ok(If(f.x, r.value, None)))
      [] f.pc = 3 -> \* line 213: statement() has returned; f.y is then_branch
            IF ~r.ok THEN Returns(ps, r)
            ELSE Returns(ps, Ok(If(f.x, f.y, Some(r.value))))

\* block, lines 225-237; f.x is statements
BlockBody(f, ps) ==
    IF ~check(ps, "RightBrace") /\ ~is_at_end(ps)
    THEN Calls(ps, [f EXCEPT !.pc = 1], "declaration", None)
    ELSE LET c == consume(ps, "RightBrace") IN
         IF c.tok.some THEN Returns(c.ps, Ok(f.x))
         ELSE p_generate_error(c.ps, "Expect '}' after block.")

block(f, r, ps) ==
    IF f.pc = 0
    THEN BlockBody([f EXCEPT !.x = <<>>], ps)
    ELSE \* line 226: declaration() has returned
         IF ~r.ok THEN Returns(ps, r)
         ELSE BlockBody([f EXCEPT !.x = Append(@, r.value)], ps)

statement(f, r, ps) ==
    IF f.pc = 0
    THEN CASE check(ps, "Print") -> ReturnsCall(advance(ps), "print_statement", None)
           [] check(ps, "While") -> ReturnsCall(advance(ps), "while_statement", None)
           [] check(ps, "For") -> ReturnsCall(advance(ps), "for_statement", None)
           [] check(ps, "Break") -> ReturnsCall(advance(ps), "break_statement", None)
           [] check(ps, "If") -> ReturnsCall(advance(ps), "if_statement", None)
           [] check(ps, "LeftBrace") ->
                 Calls(advance(ps), [f EXCEPT !.pc = 1], "block", None)
           [] OTHER -> ReturnsCall(ps, "expression_statement", None)
    ELSE \* line 88: block() has returned
         IF ~r.ok THEN Returns(ps, r)
         ELSE Returns(ps, Ok(Block(r.value)))

declaration(f, r, ps) ==
    IF check(ps, "Var") THEN ReturnsCall(advance(ps), "var_declaration", None)
    ELSE ReturnsCall(ps, "statement", None)

\* the method of frame f, run from f.pc to its next call or its return
Method(f, r, ps) ==
    CASE f.fn = "declaration" -> declaration(f, r, ps)
      [] f.fn = "var_declaration" -> var_declaration(f, r, ps)
      [] f.fn = "statement" -> statement(f, r, ps)
      [] f.fn = "print_statement" -> print_statement(f, r, ps)
      [] f.fn = "while_statement" -> while_statement(f, r, ps)
      [] f.fn = "for_statement" -> for_statement(f, r, ps)
      [] f.fn = "break_statement" -> break_statement(f, r, ps)
      [] f.fn = "if_statement" -> if_statement(f, r, ps)
      [] f.fn = "block" -> block(f, r, ps)
      [] f.fn = "expression_statement" -> expression_statement(f, r, ps)
      [] f.fn = "expression" -> expression(f, r, ps)
      [] f.fn = "assignment" -> assignment(f, r, ps)
      [] f.fn = "or" -> or(f, r, ps)
      [] f.fn = "and" -> and(f, r, ps)
      [] f.fn = "equality" -> equality(f, r, ps)
      [] f.fn = "comparison" -> comparison(f, r, ps)
      [] f.fn = "term" -> term(f, r, ps)
      [] f.fn = "factor" -> factor(f, r, ps)
      [] f.fn = "unary" -> unary(f, r, ps)
      [] f.fn = "call" -> call(f, r, ps)
      [] f.fn = "finish_call" -> finish_call(f, r, ps)
      [] f.fn = "primary" -> primary(f, r, ps)

\* The parser in the middle of a call: the frames of the calls in progress,
\* the Result the last finished call returned, the parser, and whether the
\* process has aborted.
Calling(fn, ps) ==
    [stack |-> <<Frame(fn, None)>>, ret |-> Ok(None), ps |-> ps, panic |-> FALSE]

Halted(m) == m.panic \/ m.stack = <<>>

\* the innermost call runs up to its next call or its return
Step(m) ==
    LET f == m.stack[Len(m.stack)]
        callers == SubSeq(m.stack, 1, Len(m.stack) - 1)
        o == Method(f, m.ret, m.ps)
    IN CASE o.kind = "call" ->
               [stack |-> callers \o <<o.frame, Frame(o.callee, o.arg)>>,
                ret |-> m.ret, ps |-> o.ps, panic |-> FALSE]
         [] o.kind = "tail" ->
               [stack |-> Append(callers, Frame(o.callee, o.arg)),
                ret |-> m.ret, ps |-> o.ps, panic |-> FALSE]
         [] o.kind = "return" ->
               [stack |-> callers, ret |-> o.res, ps |-> o.ps, panic |-> FALSE]
         [] o.kind = "panic" ->
               [stack |-> m.stack, ret |-> m.ret, ps |-> o.ps, panic |-> TRUE]

\* n steps, or fewer when the outermost call has returned or the process
\* has aborted
RECURSIVE Run(_, _)
Run(m, n) ==
    IF Halted(m) \/ n = 0 THEN m
    ELSE IF n = 1 THEN Step(m)
    ELSE LET half == Run(m, n \div 2)
         IN Run(half, n - (n \div 2))

\* the call self.fn() made on the parser ps, run to its end
Completes(fn, ps) == Run(Calling(fn, ps), MaxSteps)

\* synchronize, lines 470-488
RECURSIVE SynchronizeLoop(_)
SynchronizeLoop(ps) ==
    IF is_at_end(ps) THEN ps
    ELSE IF previous(ps).token_type = "Semicolon" THEN ps
    ELSE IF peek(ps).token_type \in
            {"Class", "Fun", "Var", "For", "If", "While", "Print", "Return"}
    THEN ps
    ELSE SynchronizeLoop(advance(ps))

\* synchronize advances twice before its loop
synchronize_mut(ps) ==
    IF previous_panics(advance(ps))
    THEN [ps |-> advance(ps), panic |-> TRUE]
    ELSE [ps |-> SynchronizeLoop(advance(advance(ps))), panic |-> FALSE]

\* the parser after the call, and whether the call panicked (the previous()
\* that advance returns)
synchronize(ps) ==
    IF previous_panics(advance(ps))
    THEN [ps |-> advance(ps), panic |-> TRUE]
    ELSE [ps |-> SynchronizeLoop(advance(ps)), panic |-> FALSE]

-----------------------------------------------------------------------------
(* The parser as a machine: one step per turn of the loop of               *)
(* Parser::parse, from a token sequence that ends with EOF.                *)

KindToken(token_type, lexeme) == Token(token_type, lexeme, None, 1)

EOFToken == KindToken("EOF", ";")

IdentifierToken(n) == Token("Identifier", n, Some(Identifier(n)), 1)

NumberToken(lexeme, n) == Token("Number", lexeme, Some(Number(n)), 1)

StringToken(t) == Token("String", "\"" \o t \o "\"", Some(Str(t)), 1)

TokenAlphabet ==
    {KindToken("Var", "var"), IdentifierToken("a"), KindToken("Equal", "="),
     NumberToken("5", 5), KindToken("Semicolon", ";"),
     KindToken("LeftParen", "("), KindToken("RightParen", ")"),
     KindToken("LeftBrace", "{"), KindToken("RightBrace", "}"),
     KindToken("Break", "break")}

\* every sequence of at most n tokens of TokenAlphabet, and EOF after it
TokensUpTo(n) ==
    {Append(ts, EOFToken) : ts \in UNION {[1..k -> TokenAlphabet] : k \in 0..n}}

\* var a = 5;   (the test of parser.rs)
TokAssignment ==
    <<KindToken("Var", "var"), IdentifierToken("a"), KindToken("Equal", "="),
      NumberToken("5", 5), KindToken("Semicolon", ";"), EOFToken>>

\* for (var a = 5; a < 5; a = a + 5) print a;
TokFor ==
    <<KindToken("For", "for"), KindToken("LeftParen", "("),
      KindToken("Var", "var"), IdentifierToken("a"), KindToken("Equal", "="),
      NumberToken("5", 5), KindToken("Semicolon", ";"),
      IdentifierToken("a"), KindToken("Less", "<"), NumberToken("5", 5),
      KindToken("Semicolon", ";"),
      IdentifierToken("a"), KindToken("Equal", "="), IdentifierToken("a"),
      KindToken("Plus", "+"), NumberToken("5", 5), KindToken("RightParen", ")"),
      KindToken("Print", "print"), IdentifierToken("a"),
      KindToken("Semicolon", ";"), EOFToken>>

\* if (!a == nil or true and false) print -5 * 5; else { a(5,); }
TokIf ==
    <<KindToken("If", "if"), KindToken("LeftParen", "("),
      KindToken("Bang", "!"), IdentifierToken("a"),
      KindToken("EqualEqual", "=="), KindToken("Nil", "nil"),
      KindToken("Or", "or"), KindToken("True", "true"),
      KindToken("And", "and"), KindToken("False", "false"),
      KindToken("RightParen", ")"),
      KindToken("Print", "print"), KindToken("Minus", "-"), NumberToken("5", 5),
      KindToken("Star", "*"), NumberToken("5", 5), KindToken("Semicolon", ";"),
      KindToken("Else", "else"), KindToken("LeftBrace", "{"),
      IdentifierToken("a"), KindToken("LeftParen", "("), NumberToken("5", 5),
      KindToken("Comma", ","), KindToken("RightParen", ")"),
      KindToken("Semicolon", ";"),
      KindToken("RightBrace", "}"), EOFToken>>

\* while (a) { a = "s" a = 5; break; } a = 5 print a; break;
TokRecover ==
    <<KindToken("While", "while"), KindToken("LeftParen", "("),
      IdentifierToken("a"), KindToken("RightParen", ")"),
      KindToken("LeftBrace", "{"),
      IdentifierToken("a"), KindToken("Equal", "="), StringToken("s"),
      IdentifierToken("a"), KindToken("Equal", "="), NumberToken("5", 5),
      KindToken("Semicolon", ";"),
      KindToken("Break", "break"), KindToken("Semicolon", ";"),
      KindToken("RightBrace", "}"),
      IdentifierToken("a"), KindToken("Equal", "="), NumberToken("5", 5),
      KindToken("Print", "print"), IdentifierToken("a"),
      KindToken("Semicolon", ";"),
      KindToken("Break", "break"), KindToken("Semicolon", ";"), EOFToken>>

\* (a) = 5;
TokGroupingTarget ==
    <<KindToken("LeftParen", "("), IdentifierToken("a"),
      KindToken("RightParen", ")"), KindToken("Equal", "="),
      NumberToken("5", 5), KindToken("Semicolon", ";"), EOFToken>>

\* 1 + 2 * 3; -a * b; a = b = 1; a - b - c;
TokPrecedence ==
    <<NumberToken("1", 1), KindToken("Plus", "+"), NumberToken("2", 2),
      KindToken("Star", "*"), NumberToken("3", 3), KindToken("Semicolon", ";"),
      KindToken("Minus", "-"), IdentifierToken("a"), KindToken("Star", "*"),
      IdentifierToken("b"), KindToken("Semicolon", ";"),
      IdentifierToken("a"), KindToken("Equal", "="), IdentifierToken("b"),
      KindToken("Equal", "="), NumberToken("1", 1), KindToken("Semicolon", ";"),
      IdentifierToken("a"), KindToken("Minus", "-"), IdentifierToken("b"),
      KindToken("Minus", "-"), IdentifierToken("c"), KindToken("Semicolon", ";"),
      EOFToken>>

\* a = b or c and a == b < c + a / !b;
TokChain ==
    <<IdentifierToken("a"), KindToken("Equal", "="), IdentifierToken("b"),
      KindToken("Or", "or"), IdentifierToken("c"), KindToken("And", "and"),
      IdentifierToken("a"), KindToken("EqualEqual", "=="), IdentifierToken("b"),
      KindToken("Less", "<"), IdentifierToken("c"), KindToken("Plus", "+"),
      IdentifierToken("a"), KindToken("Slash", "/"), KindToken("Bang", "!"),
      IdentifierToken("b"), KindToken("Semicolon", ";"), EOFToken>>

\* operands of a chain of `and`:  true  false  nil  5  a  (a = nil)
AndOperandTokens ==
    { <<KindToken("True", "true")>>, <<KindToken("False", "false")>>,
      <<KindToken("Nil", "nil")>>, <<NumberToken("5", 5)>>,
      <<IdentifierToken("a")>>,
      <<KindToken("LeftParen", "("), IdentifierToken("a"),
        KindToken("Equal", "="), KindToken("Nil", "nil"),
        KindToken("RightParen", ")")>> }

\* x1 and x2 and ... and xn ;   for the operands xs
RECURSIVE AndChain(_)
AndChain(xs) ==
    IF Len(xs) = 1 THEN xs[1] \o <<KindToken("Semicolon", ";"), EOFToken>>
    ELSE xs[1] \o <<KindToken("And", "and")>> \o AndChain(Tail(xs))

\* the chains of 2 up to MaxChain operands
TokAndChains ==
    {AndChain(xs) : xs \in UNION {[1..n -> AndOperandTokens] : n \in 2..MaxChain}}

TestTokens ==
    {TokAssignment, TokFor, TokIf, TokRecover, TokGroupingTarget, TokPrecedence,
     TokChain}

\* the Parser as the record the operators above work on
TheParser ==
    [tokens |-> p_tokens, current |-> p_current, loop_count |-> loop_count]

\* parse_tokens: Parser::new(tokens) and the first lines of parse
ParseInit ==
    /\ EvaluatorIdle
    /\ ScannerIdle
    /\ p_tokens \in TokensUpTo(MaxTokens) \cup TestTokens \cup TokAndChains
    /\ p_current = 0
    /\ loop_count = 0
    /\ statements = <<>>
    /\ p_is_error = FALSE
    /\ diagnostics = <<>>
    /\ parsed = "no"

\* a turn of the loop of parse, lines 29-36
ParseDeclaration ==
    /\ parsed = "no"
    /\ ~is_at_end(TheParser)
    /\ LET d == Completes("declaration", TheParser) IN
       /\ Halted(d)
       /\ IF d.panic
          THEN \* declaration aborts the process
               /\ p_current' = d.ps.current
               /\ loop_count' = d.ps.loop_count
               /\ parsed' = "panic"
               /\ UNCHANGED <<statements, p_is_error, diagnostics>>
          ELSE IF d.ret.ok
          THEN \* Ok(stmt) => statements.push(stmt)
               /\ statements' = Append(statements, d.ret.value)
               /\ p_current' = d.ps.current
               /\ loop_count' = d.ps.loop_count
               /\ UNCHANGED <<p_is_error, diagnostics, parsed>>
          ELSE \* Err(e) => is_error, println, synchronize
               /\ p_is_error' = TRUE
               /\ diagnostics' = Append(diagnostics, d.ret.err)
               /\ LET sy == synchronize(d.ps) IN
                  /\ p_current' = sy.ps.current
                  /\ loop_count' = sy.ps.loop_count
                  /\ parsed' = IF sy.panic THEN "panic" ELSE parsed
               /\ UNCHANGED statements
    /\ UNCHANGED <<p_tokens, evalVars, scanVars>>

\* the end of parse: the loop is over
ParseReturn ==
    /\ parsed = "no"
    /\ is_at_end(TheParser)
    /\ parsed' = IF p_is_error THEN "Err" ELSE "Ok"
    /\ UNCHANGED <<p_tokens, p_current, loop_count, statements, p_is_error,
                   diagnostics, evalVars, scanVars>>

ParseNext ==
    \/ ParseDeclaration
    \/ ParseReturn

ParseSpec == ParseInit /\ [][ParseNext]_vars

\* C9: parse is total on token sequences ending with EOF: it never aborts
\* (no read of a token index outside the vector, the cursor stays inside
\* it), every turn of its loop moves the cursor forward so that it halts,
\* and it returns a statement list without any diagnostic or a failure
\* after at least one diagnostic, also when the very first token cannot
\* start a declaration.
C9_ParserTotal ==
    parsed /= "idle" =>
        /\ parsed /= "panic"
        /\ p_current < Len(p_tokens)
        /\ Len(statements) + Len(diagnostics) <= p_current
        /\ parsed = "Ok" => diagnostics = <<>>
        /\ parsed = "Err" => diagnostics /= <<>>

-----------------------------------------------------------------------------
(* main.rs: run, called once by run_file and once a line by run_prompt on  *)
(* one Interpreter.  The scanner and the parser of a run are locals of     *)
(* scan_tokens and parse_tokens: the tokens move from the one to the other *)
(* and the statements to interpret; source stays, as the contents run was  *)
(* called with.  A source text never gives a Break statement (the scanner  *)
(* has no such keyword), so execute never meets one here.                  *)

\* "var a = 1;"
LineVar ==
    <<"v", "a", "r", " ", "a", " ", "=", " ", "1", ";">>

\* "print a;"
LinePrint ==
    <<"p", "r", "i", "n", "t", " ", "a", ";">>

\* "while (a) { print b; }"
LineWhileErr ==
    <<"w", "h", "i", "l", "e", " ", "(", "a", ")", " ", "{", " ", "p", "r",
      "i", "n", "t", " ", "b", ";", " ", "}">>

\* "if (a == 1) a; else print 2;"
LineIf ==
    <<"i", "f", " ", "(", "a", " ", "=", "=", " ", "1", ")", " ", "a", ";",
      " ", "e", "l", "s", "e", " ", "p", "r", "i", "n", "t", " ", "2", ";">>

\* "for (var i=0; i<3; i=i+1) print i;"
LineFor ==
    <<"f", "o", "r", " ", "(", "v", "a", "r", " ", "i", "=", "0", ";", " ",
      "i", "<", "3", ";", " ", "i", "=", "i", "+", "1", ")", " ", "p", "r",
      "i", "n", "t", " ", "i", ";">>

\* "print (;"
LineParseErr ==
    <<"p", "r", "i", "n", "t", " ", "(", ";">>

\* "print #;"
LineScanErr ==
    <<"p", "r", "i", "n", "t", " ", "#", ";">>

\* ";"
LineAbort ==
    <<";">>

Lines ==
    {LineVar, LinePrint, LineWhileErr, LineIf, LineFor, LineParseErr,
     LineScanErr, LineAbort}

\* no call of run is going on: none was made yet, or the last one returned
RunReturned ==
    /\ stack = <<>>
    /\ result /= "running"
    /\ scanned \in {"idle", "Err"}
    /\ parsed \in {"idle", "Err"}

NoRunYet == scanned = "idle" /\ parsed = "idle" /\ calls = 0

\* run, line 14: scan_tokens(contents) begins with Scanner::new.  run_prompt
\* calls run for every line it reads, run_file once.
RunScanTokens(contents) ==
    /\ RunReturned
    /\ is_repl \/ NoRunYet
    /\ calls < MaxCalls
    /\ source' = contents
    /\ tokens' = <<>>
    /\ start' = 0
    /\ current' = 0
    /\ line' = 0
    /\ is_error' = FALSE
    /\ reported' = <<>>
    /\ scanned' = "no"
    /\ p_tokens' = <<>>
    /\ p_current' = 0
    /\ loop_count' = 0
    /\ statements' = <<>>
    /\ p_is_error' = FALSE
    /\ diagnostics' = <<>>
    /\ parsed' = "idle"
    /\ UNCHANGED evalVars

\* run, lines 15 and 19: scan_tokens returned Ok(tokens), parse_tokens(tokens)
\* begins with Parser::new
RunParseTokens ==
    /\ scanned = "Ok"
    /\ p_tokens' = tokens
    /\ p_current' = 0
    /\ loop_count' = 0
    /\ statements' = <<>>
    /\ p_is_error' = FALSE
    /\ diagnostics' = <<>>
    /\ parsed' = "no"
    /\ tokens' = <<>>
    /\ scanned' = "idle"
    /\ UNCHANGED <<source, start, current, line, is_error, reported, evalVars>>

\* run, lines 20 and 24: parse_tokens returned Ok(statements),
\* interpreter.interpret(&statements) begins
RunInterpret ==
    /\ parsed = "Ok"
    /\ stack' = <<[kind |-> "interpret", statements |-> statements, pc |-> 1]>>
    /\ calls' = calls + 1
    /\ program' = 0
    /\ out' = <<>>
    /\ result' = "running"
    /\ ret' = NoRet
    /\ lastEval' = NoEval
    /\ p_tokens' = <<>>
    /\ p_current' = 0
    /\ loop_count' = 0
    /\ statements' = <<>>
    /\ p_is_error' = FALSE
    /\ diagnostics' = <<>>
    /\ parsed' = "idle"
    /\ UNCHANGED <<is_repl, heap, environment, scanVars>>

MainNext ==
    \/ \E contents \in Lines : RunScanTokens(contents)
    \/ ScanToken
    \/ ScanEnd
    \/ RunParseTokens
    \/ ParseDeclaration
    \/ ParseReturn
    \/ RunInterpret
    \/ InterpretLoop
    \/ InterpretOk
    \/ InterpretErr
    \/ ExecExpression
    \/ ExecPrintStmt
    \/ ExecVariable
    \/ ExecBlock
    \/ BlockLoop
    \/ BlockErr
    \/ BlockExit
    \/ ExecIf
    \/ ExecWhile
    \/ WhileCondition
    \/ WhileBodyErr

\* run_file (line 30) and run_prompt (line 39) begin with Interpreter::new
MainSpec == Init /\ [][MainNext]_vars
-----------------------------------------------------------------------------
(* Properties of the parser.                                               *)

\* every Break of stmt is inside the body of a While (in_loop: stmt itself is)
RECURSIVE BreaksInLoops(_, _)
BreaksInLoops(stmt, in_loop) ==
    CASE stmt.stmt = "Break" -> in_loop
      [] stmt.stmt = "Block" ->
            \A i \in 1..Len(stmt.statements) : BreaksInLoops(stmt.statements[i], in_loop)
      [] stmt.stmt = "If" ->
            /\ BreaksInLoops(stmt.then_branch, in_loop)
            /\ stmt.else_branch.some => BreaksInLoops(stmt.else_branch.val, in_loop)
      [] stmt.stmt = "While" -> BreaksInLoops(stmt.body, TRUE)
      [] OTHER -> TRUE

HasToken(token_type) == \E i \in 1..Len(p_tokens) : p_tokens[i].token_type = token_type

\* C11: a break that is not inside a loop body is a parse error: when the
\* token sequence has a Break token and no While or For token at all, parse
\* returns the failure; and every Break of a statement list that parse
\* returns is nested inside a While body.
C11_BreakOutsideLoopIsParseError ==
    /\ parsed = "Ok" =>
          \A i \in 1..Len(statements) : BreaksInLoops(statements[i], FALSE)
    /\ (parsed \notin {"idle", "no"} /\ HasToken("Break")
            /\ ~HasToken("While") /\ ~HasToken("For")) => parsed = "Err"

\* 5 = 5;
TokNumberTarget ==
    <<NumberToken("5", 5), KindToken("Equal", "="), NumberToken("5", 5),
      KindToken("Semicolon", ";"), EOFToken>>

\* C18: an assignment whose target is not a variable is reported but does
\* not abort the statement: for `5 = 5;` and for `(a) = 5;` the message
\* "Invalid assignment target." is printed, the statement is parsed to the
\* expression statement of its left-hand side and the parse goes on after the
\* semicolon.
C18_InvalidTargetKeepsParsing ==
    /\ (p_tokens = TokNumberTarget /\ parsed \in {"Ok", "Err"})
       => /\ diagnostics = <<"[line 1] Error: Invalid assignment target.">>
          /\ statements = <<ExpressionStmt(Literal(Number(5)))>>
    /\ (p_tokens = TokGroupingTarget /\ parsed \in {"Ok", "Err"})
       => /\ diagnostics = <<"[line 1] Error: Invalid assignment target.">>
          /\ statements =
                <<ExpressionStmt(Grouping([expr |-> "Variable",
                                           name |-> IdentifierToken("a")]))>>

VariableNode(n) == [expr |-> "Variable", name |-> IdentifierToken(n)]

AssignNode(n, value) == [expr |-> "Assign", name |-> IdentifierToken(n), value |-> value]

UnaryNode(operator, right) == [expr |-> "Unary", operator |-> operator, right |-> right]

\* the level of the grammar that builds the expression: assignment 0, or 1,
\* and 2, equality 3, comparison 4, term 5, factor 6, unary 7, call 8,
\* primary 9
OperatorLevel(token_type) ==
    CASE token_type = "Or" -> 1
      [] token_type = "And" -> 2
      [] token_type \in {"BangEqual", "EqualEqual"} -> 3
      [] token_type \in {"Greater", "GreaterEqual", "Less", "LessEqual"} -> 4
      [] token_type \in {"Minus", "Plus"} -> 5
      [] token_type \in {"Slash", "Star"} -> 6

ExprLevel(expr) ==
    CASE expr.expr = "Assign" -> 0
      [] expr.expr \in {"Logical", "Binary"} -> OperatorLevel(expr.operator.token_type)
      [] expr.expr = "Unary" -> 7
      [] expr.expr = "Call" -> 8
      [] OTHER -> 9

\* an operand binds at least as tightly as the operator it is under, and the
\* right operand of a binary operator more tightly (the left fold)
RECURSIVE WellNested(_)
WellNested(expr) ==
    CASE expr.expr = "Assign" -> WellNested(expr.value)
      [] expr.expr = "Logical" ->
            /\ ExprLevel(expr.left) >= ExprLevel(expr)
            /\ ExprLevel(expr.right) >= ExprLevel(expr)
            /\ WellNested(expr.left)
            /\ WellNested(expr.right)
      [] expr.expr = "Binary" ->
            /\ ExprLevel(expr.left) >= ExprLevel(expr)
            /\ ExprLevel(expr.right) > ExprLevel(expr)
            /\ WellNested(expr.left)
            /\ WellNested(expr.right)
      [] expr.expr = "Unary" ->
            ExprLevel(expr.right) >= 7 /\ WellNested(expr.right)
      [] expr.expr = "Grouping" -> WellNested(expr.expression)
      [] expr.expr = "Call" ->
            /\ ExprLevel(expr.callee) >= 8
            /\ WellNested(expr.callee)
            /\ \A i \in 1..Len(expr.arguments) : WellNested(expr.arguments[i])
      [] OTHER -> TRUE

RECURSIVE StmtWellNested(_)
StmtWellNested(stmt) ==
    CASE stmt.stmt \in {"Expression", "Print"} -> WellNested(stmt.expression)
      [] stmt.stmt = "Variable" ->
            stmt.initializer.some => WellNested(stmt.initializer.val)
      [] stmt.stmt = "Block" ->
            \A i \in 1..Len(stmt.statements) : StmtWellNested(stmt.statements[i])
      [] stmt.stmt = "If" ->
            /\ WellNested(stmt.condition)
            /\ StmtWellNested(stmt.then_branch)
            /\ stmt.else_branch.some => StmtWellNested(stmt.else_branch.val)
      [] stmt.stmt = "While" ->
            WellNested(stmt.condition) /\ StmtWellNested(stmt.body)
      [] OTHER -> TRUE

Decl(ts, stmt) == [tokens |-> ts, stmt |-> stmt]

ValidDeclarations ==
    LET var == KindToken("Var", "var")
        a == IdentifierToken("a")
        eq == KindToken("Equal", "=")
        five == NumberToken("5", 5)
        semi == KindToken("Semicolon", ";")
        lp == KindToken("LeftParen", "(")
        rp == KindToken("RightParen", ")")
        lb == KindToken("LeftBrace", "{")
        rb == KindToken("RightBrace", "}")
        VarStmt(initializer) ==
            [stmt |-> "Variable", name |-> a, initializer |-> initializer]
    IN { Decl(<<var, a, semi>>, VarStmt(None)),
         Decl(<<var, a, eq, five, semi>>, VarStmt(Some(Literal(Number(5))))),
         Decl(<<var, a, eq, a, semi>>, VarStmt(Some(VariableNode("a")))),
         Decl(<<a, semi>>, ExpressionStmt(VariableNode("a"))),
         Decl(<<five, semi>>, ExpressionStmt(Literal(Number(5)))),
         Decl(<<a, eq, five, semi>>,
              ExpressionStmt(AssignNode("a", Literal(Number(5))))),
         Decl(<<a, eq, a, semi>>, ExpressionStmt(AssignNode("a", VariableNode("a")))),
         Decl(<<lp, a, rp, semi>>, ExpressionStmt(Grouping(VariableNode("a")))),
         Decl(<<lp, five, rp, semi>>, ExpressionStmt(Grouping(Literal(Number(5))))),
         Decl(<<lb, rb>>, Block(<<>>)),
         Decl(<<lb, a, semi, rb>>, Block(<<ExpressionStmt(VariableNode("a"))>>)),
         Decl(<<lb, five, semi, rb>>, Block(<<ExpressionStmt(Literal(Number(5)))>>)),
         Decl(<<lb, lb, rb, rb>>, Block(<<Block(<<>>)>>)) }

\* the statements of the token sequence ts when it is declarations of
\* ValidDeclarations one after the other and then EOF, None when it is not
RECURSIVE Declared(_)
Declared(ts) ==
    IF ts = <<EOFToken>> THEN Some(<<>>)
    ELSE LET ds == {d \in ValidDeclarations : IsPrefix(d.tokens, ts)} IN
         IF ds = {} THEN None
         ELSE LET d == CHOOSE d \in ds : TRUE
                  rest == Declared(SubSeq(ts, Len(d.tokens) + 1, Len(ts)))
              IN IF rest.some THEN Some(<<d.stmt>> \o rest.val) ELSE None

\* C21: parse of a valid program of n top-level declarations and EOF returns
\* Ok with the n statements of the declarations in their order (while it
\* runs it has the statements of the declarations before the cursor); the
\* tokens of `var a = 5;` give the one statement Variable{name: the token a,
\* initializer: Literal(Number 5)}, and the one for statement of TokFor one
\* statement.
C21_ValidProgramParses ==
    /\ LET declared == Declared(p_tokens) IN
       (parsed /= "idle" /\ declared.some)
       => /\ parsed \in {"no", "Ok"}
          /\ diagnostics = <<>>
          /\ IsPrefix(statements, declared.val)
          /\ parsed = "Ok" => statements = declared.val
    /\ (p_tokens = TokAssignment /\ parsed \notin {"idle", "no"})
       => /\ parsed = "Ok"
          /\ statements =
                << [stmt |-> "Variable", name |-> TokAssignment[2],
                    initializer |-> Some(Literal(Number(5)))] >>
    /\ (p_tokens = TokFor /\ parsed \notin {"idle", "no"})
       => (parsed = "Ok" /\ Len(statements) = 1)

\* two declarations have been parsed, in their order:  a; 5;
C21_Witness ==
    /\ p_tokens = <<IdentifierToken("a"), KindToken("Semicolon", ";"),
                    NumberToken("5", 5), KindToken("Semicolon", ";"), EOFToken>>
    /\ parsed = "Ok"
    /\ statements = <<ExpressionStmt(VariableNode("a")),
                      ExpressionStmt(Literal(Number(5)))>>

\* C22: loop_count is the number of loop bodies being parsed: it is 0
\* whenever parse is at a top-level declaration and when parse returns, also
\* after an error inside a loop body and synchronize; so a top-level break
\* is never parsed to a statement.
C22_LoopCountBalanced ==
    parsed \in {"no", "Ok", "Err"} =>
        /\ loop_count = 0
        /\ \A i \in 1..Len(statements) : statements[i].stmt /= "Break"

\* the cursor at EOF
EndCursor == Len(p_tokens) - 1

\* the three conditions at which synchronize stops, for the cursor q
StopsAt(q) ==
    \/ q = EndCursor
    \/ q >= 1 /\ p_tokens[q].token_type = "Semicolon"
    \/ p_tokens[q + 1].token_type \in
            {"Class", "Fun", "Var", "For", "If", "While", "Print", "Return"}

\* a turn of the loop of parse in which declaration returned the error that
\* is printed
DeclarationFailed == parsed = "no" /\ diagnostics' /= diagnostics

\* the cursor goes from the place of the error to the first cursor not before
\* `from` at which synchronize stops, and the loop of parse goes on
RecoversFrom(from) ==
    /\ p_current' >= from
    /\ StopsAt(p_current')
    /\ \A q \in from..(p_current' - 1) : ~StopsAt(q)
    /\ parsed' = "no"
    /\ p_is_error'

\* parse returns the failure when a declaration failed, whatever came later
FailureIsKept ==
    /\ parsed = "Ok" => (~p_is_error /\ diagnostics = <<>>)
    /\ (parsed = "no" /\ diagnostics /= <<>>) => p_is_error
    /\ (parsed = "Err") => p_is_error

RECURSIVE AndOperands(_)
AndOperands(expr) ==
    IF expr.expr = "Logical" /\ expr.operator.token_type = "And"
    THEN <<expr.left>> \o AndOperands(expr.right)
    ELSE <<expr>>

\* the operands xs folded to the left, as `or` folds: ((x1 and x2) and x3) ...
RECURSIVE LeftFold(_)
LeftFold(xs) ==
    IF Len(xs) = 1 THEN xs[1]
    ELSE LogicalNode(LeftFold(SubSeq(xs, 1, Len(xs) - 1)),
                     KindToken("And", "and"), xs[Len(xs)])

\* environments to evaluate in: a not bound, a bound to true, to nil and to
\* 5 in the global scope, and a bound to true in the scope around the
\* current one
ChainEnvironments ==
    { [heap |-> <<Environment_new>>, environment |-> 1],
      [heap |-> <<[enclosing |-> 0, values |-> [k \in {"a"} |-> Bool(TRUE)]]>>,
       environment |-> 1],
      [heap |-> <<[enclosing |-> 0, values |-> [k \in {"a"} |-> Nil]]>>,
       environment |-> 1],
      [heap |-> <<[enclosing |-> 0, values |-> [k \in {"a"} |-> Number(5)]]>>,
       environment |-> 1],
      [heap |-> <<[enclosing |-> 0, values |-> [k \in {"a"} |-> Bool(TRUE)]],
                  Environment_from(1)>>,
       environment |-> 2] }

AndCount == Cardinality({i \in 1..Len(p_tokens) : p_tokens[i].token_type = "And"})

\* C25: the tree `and` builds for a chain of operands is nested to the right
\* (each left operand is one operand of the chain, in the order of the
\* tokens), and evaluating it gives the same Result, reads and assigns the
\* same things in the same order and leaves the same environment as
\* evaluating the operands folded to the left.
C25_AndNestingIsEquivalent ==
    /\ (p_tokens \in TokAndChains /\ parsed \notin {"idle", "no"})
       => /\ parsed = "Ok"
          /\ Len(statements) = 1
          /\ statements[1].stmt = "Expression"
          /\ LET xs == AndOperands(statements[1].expression) IN
             /\ Len(xs) = AndCount + 1
             /\ \A i \in 1..Len(xs) : xs[i].expr /= "Logical"
    /\ \A i \in 1..Len(statements) :
          (statements[i].stmt = "Expression"
              /\ statements[i].expression.expr = "Logical")
          => \A env \in ChainEnvironments :
                evaluate(statements[i].expression, env.heap, env.environment)
                = evaluate(LeftFold(AndOperands(statements[i].expression)),
                           env.heap, env.environment)

\* (a = nil) and a and 5;   parsed to the tree nested to the right; with a
\* bound to true the first operand is evaluated, and nothing after it
C25_Witness ==
    /\ p_tokens = AndChain(<< <<KindToken("LeftParen", "("), IdentifierToken("a"),
                                KindToken("Equal", "="), KindToken("Nil", "nil"),
                                KindToken("RightParen", ")")>>,
                              <<IdentifierToken("a")>>, <<NumberToken("5", 5)>> >>)
    /\ parsed = "Ok"
    /\ statements =
          << ExpressionStmt(
               LogicalNode(Grouping(AssignNode("a", Literal(Nil))),
                           KindToken("And", "and"),
                           LogicalNode(VariableNode("a"), KindToken("And", "and"),
                                       Literal(Number(5))))) >>
    /\ LET r == evaluate(statements[1].expression,
                         <<[enclosing |-> 0, values |-> [k \in {"a"} |-> Bool(TRUE)]]>>,
                         1)
       IN r.res = Ok(Nil) /\ Len(r.log) = 2
-----------------------------------------------------------------------------
(* Properties of run *)

\* C13: a run whose scan fails runs neither the parser nor the evaluator, a
\* run whose parse fails does not run the evaluator, and either leaves the
\* environment as it was; interpret is called only with the statements of a
\* parse that returned Ok; the run of the next line begins with the error
\* flags of the scanner and of the parser cleared; and every line's run
\* returns to the prompt, so that the next line is read whatever the lines
\* before it did.
C13_StagesShortCircuit ==
    /\ [](scanned = "Err" => (parsed = "idle" /\ stack = <<>>))
    /\ [](parsed = "Err" => stack = <<>>)
    /\ [][(scanned = "Err" \/ parsed = "Err")
          => UNCHANGED <<heap, environment, calls, stack>>]_vars
    /\ [][calls' /= calls => (parsed = "Ok" /\ scanned = "idle")]_vars
    /\ [][(parsed = "idle" /\ parsed' = "no") => scanned = "Ok"]_vars
    /\ [][(RunReturned /\ scanned' = "no")
          => (~is_error' /\ ~p_is_error' /\ diagnostics' = <<>> /\ tokens' = <<>>)]_vars
    /\ [](is_repl => (scanned /= "panic" /\ parsed /= "panic"))

\* a token of the first line of a source, as the scanner makes it
FirstLineToken(token_type, lexeme, literal) == Token(token_type, lexeme, literal, 0)

FirstLineVariable(n) ==
    [expr |-> "Variable",
     name |-> FirstLineToken("Identifier", n, Some(Identifier(n)))]

\* C19: `for (var i=0; i<3; i=i+1) print i;` is parsed to
\* Block[var i = 0, While{i < 3, Block[print i, Expression(i = i + 1)]}];
\* run as a script it prints 0, 1, 2 and nothing else, and i is not bound in
\* the global scope when it has ended.
C19_ForDesugaring ==
    /\ (source = LineFor /\ parsed = "Ok")
       => statements =
            << Block(<<
                 [stmt |-> "Variable",
                  name |-> FirstLineToken("Identifier", "i", Some(Identifier("i"))),
                  initializer |-> Some(Literal(Number(0)))],
                 While(BinaryNode(FirstLineVariable("i"),
                                  FirstLineToken("Less", "<", None),
                                  Literal(Number(3))),
                       Block(<<
                         PrintStmt(FirstLineVariable("i")),
                         ExpressionStmt(
                           [expr |-> "Assign",
                            name |-> FirstLineToken("Identifier", "i",
                                                    Some(Identifier("i"))),
                            value |-> BinaryNode(FirstLineVariable("i"),
                                                 FirstLineToken("Plus", "+", None),
                                                 Literal(Number(1)))]) >>)) >>) >>
    /\ (source = LineFor /\ ~is_repl /\ calls = 1)
       => /\ IsPrefix(out, <<"0", "1", "2">>)
          /\ (stack = <<>> /\ result /= "running")
             => /\ result = "Ok"
                /\ out = <<"0", "1", "2">>
                /\ "i" \notin DOMAIN heap[1].values

====
